---- MODULE Spec2Model ----
(***************************************************************************)
(* Model of the yoha hand tracking engine: the tracking loop of            *)
(* core/engine/base.ts (StartEngine), its start-up wrappers, the geometry  *)
(* that derives the crop window of the next frame, the post processing of  *)
(* the landmark output, and the aggregation of download progress.          *)
(*                                                                         *)
(* Numbers.  Relative coordinates and probabilities are fixed-point        *)
(* integers with unit U (U stands for 1.0).  Pixel sizes (the aspect       *)
(* ratio) are plain integers.  Angles are counted in quarter turns (1      *)
(* stands for PI/2 radians); the model outputs that are fed to the loop    *)
(* have axis-aligned palm lines, so every angle is a whole quarter turn    *)
(* and cos/sin are exact.                                                  *)
(*                                                                         *)
(* Arrays.  A JavaScript array a is a sequence; a[i] is At(a, i).          *)
(***************************************************************************)
EXTENDS Integers, Sequences, FiniteSets, TLC

\* 1.0 in fixed-point.
U == 10 ^ 4

\* ---------------------------------------------------------------- bounds
\* Number of landmark ticks (results) observed in one run.
MaxTicks == 3
\* Number of simultaneous downloads created by one aggregator.
NumDownloads == 2
\* Largest byte count a download reports.
MaxBytes == 2
\* Longest vector handed to the elementwise operations.
MaxLen == 2

\* Largest width and height of the resolutions that are scaled.
MaxSide == 4

\* Number of CreateEngine calls of util/engine_helper.
NumCallers == 3

\* Number of Preprocess calls on one canvas.
MaxPreprocess == 2

\* ------------------------------------------------------- number helpers
Abs(x) == IF x < 0 THEN 0 - x ELSE x

Max(a, b) == IF a > b THEN a ELSE b

\* a * b for fixed-point a and b (floor), split so that no product
\* leaves the 32 bit range.
MulFix(a, b) == (a \div U) * b + ((a % U) * b) \div U

\* a / b for fixed-point a and b (floor).
DivFix(a, b) == (a * U) \div b

RECURSIVE SqrtIter(_, _)
SqrtIter(n, x) ==
  LET y == (x + n \div x) \div 2
  IN  IF y >= x THEN x ELSE SqrtIter(n, y)

\* Math.sqrt on integers (floor).
ISqrt(n) == IF n <= 0 THEN 0 ELSE SqrtIter(n, n)

At(a, i) == a[i + 1]

\* null: a config the caller did not supply, no crop window, no extremum.
Null == [null |-> TRUE]

Range(s) == {s[i] : i \in DOMAIN s}

\* ------------------------------------------------- vector/rotation math
MakeCoordsAbsolute(coords, widthPx, heightPx) ==
  [k \in DOMAIN coords |->
     <<coords[k][1] * (widthPx - 1), coords[k][2] * (heightPx - 1)>>]

\* sqrt(a0^2 + a1^2).  An axis-aligned vector needs no square root; any
\* other one is scaled into the 32 bit range before squaring.
ComputeL2Norm(a) ==
  IF a[2] = 0 THEN Abs(a[1])
  ELSE IF a[1] = 0 THEN Abs(a[2])
  ELSE LET k == (Max(Abs(a[1]), Abs(a[2])) \div 30000) + 1
       IN  k * ISqrt((a[1] \div k) * (a[1] \div k) + (a[2] \div k) * (a[2] \div k))

\* The exception 'Unequal length vectors'.  Arrays are sequences, so two
\* arrays are of equal length exactly if their domains are equal.
UnequalLengthVectors == [thrown |-> "Unequal length vectors"]

SubtractVectors(a, b) ==
  IF DOMAIN a # DOMAIN b THEN UnequalLengthVectors
  ELSE [i \in DOMAIN a |-> a[i] - b[i]]

\* Mutant: the shorter vector decides the length of the result.
AddVectors_Truncates(a, b) ==
  [i \in DOMAIN a \cap DOMAIN b |-> a[i] + b[i]]

AddVectors(a, b) ==
  IF DOMAIN a # DOMAIN b THEN UnequalLengthVectors
  ELSE [i \in DOMAIN a |-> a[i] + b[i]]

MultiplyVectors(a, b) ==
  IF DOMAIN a # DOMAIN b THEN UnequalLengthVectors
  ELSE [i \in DOMAIN a |-> MulFix(a[i], b[i])]

DivideVectors(a, b) ==
  IF DOMAIN a # DOMAIN b THEN UnequalLengthVectors
  ELSE [i \in DOMAIN a |-> DivFix(a[i], b[i])]

ComputeDistanceBetweenVectors(v1, v2) == ComputeL2Norm(SubtractVectors(v1, v2))

\* a / |a|; the norm of an axis-aligned vector is exact.
NormalizeVector(a) ==
  LET norm == ComputeL2Norm(a)
  IN  [i \in DOMAIN a |-> DivFix(a[i], norm)]

\* Angles in quarter turns: 90 degrees each.
RadiansToDegrees(radians) == radians * 90

DegreesToRadians(degrees) == degrees \div 90

\* Math.cos / Math.sin of a whole number of quarter turns, in fixed-point.
CosQ(q) == CASE q % 4 = 0 -> U [] q % 4 = 1 -> 0 [] q % 4 = 2 -> 0 - U [] q % 4 = 3 -> 0

SinQ(q) == CASE q % 4 = 0 -> 0 [] q % 4 = 1 -> U [] q % 4 = 2 -> 0 [] q % 4 = 3 -> 0 - U

\* Math.atan2(y, x) for an axis-aligned unit vector, in quarter turns.
\* The zero that reaches y when x < 0 is a negative zero (the negation of
\* a difference of equal numbers), so the result is -PI and not PI.
Atan2Q(y, x) ==
  CASE y = 0 /\ x > 0 -> 0
    [] y = 0 /\ x < 0 -> 0 - 2
    [] y < 0 /\ x = 0 -> 0 - 1
    [] y > 0 /\ x = 0 -> 1

ComputeRotationMatrix2D(center, angleInDegrees, scale) ==
  LET rotationInRadians == DegreesToRadians(angleInDegrees)
      alpha == MulFix(CosQ(rotationInRadians), scale)
      beta  == MulFix(SinQ(rotationInRadians), scale)
  IN  << <<alpha, beta, MulFix(U - alpha, center[1]) - MulFix(beta, center[2])>>,
         <<0 - beta, alpha, MulFix(beta, center[1]) + MulFix(U - alpha, center[2])>> >>

MatVecMul(m, v) ==
  [i \in DOMAIN m |->
     MulFix(m[i][1], v[1]) + MulFix(m[i][2], v[2]) + MulFix(m[i][3], v[3])]

Apply2DRotMatTo2DVec(m, v) == MatVecMul(m, <<v[1], v[2], U>>)

Apply2DRotMatTo2DVecs(m, v) == [k \in DOMAIN v |-> Apply2DRotMatTo2DVec(m, v[k])]

\* AspectRatioAwareRotation: the object is the record of its constructor
\* arguments; ApplyInternal_ builds the matrices as Initialize_ does.
AraApplyInternal(rot, coords, reverse) ==
  LET maxX == (rot.aspectRatio[1] * U) \div rot.aspectRatio[2]
      center == <<MulFix(rot.rotationCenter[1], maxX), rot.rotationCenter[2]>>
      rotMat == ComputeRotationMatrix2D(center, 0 - RadiansToDegrees(rot.rotationInRadians), U)
      reverseRotMat == ComputeRotationMatrix2D(center, RadiansToDegrees(rot.rotationInRadians), U)
      aware == [k \in DOMAIN coords |-> MultiplyVectors(coords[k], <<maxX, U>>)]
      mat == IF reverse THEN reverseRotMat ELSE rotMat
      rotated == Apply2DRotMatTo2DVecs(mat, aware)
  IN  [k \in DOMAIN rotated |-> DivideVectors(rotated[k], <<maxX, U>>)]

AspectRatioAwareRotation(rotationCenter, rotationInRadians, aspectRatio) ==
  [rotationCenter |-> rotationCenter,
   rotationInRadians |-> rotationInRadians,
   aspectRatio |-> aspectRatio]

AraApply(rot, coords) == AraApplyInternal(rot, coords, FALSE)

\* Mutant: the reverse direction rotates with the forward matrix.
AraApplyReverse_Forward(rot, coords) == AraApplyInternal(rot, coords, FALSE)

AraApplyReverse(rot, coords) == AraApplyInternal(rot, coords, TRUE)

\* The loop of ComputeExtremumCoords from index k on: a later coordinate
\* replaces an extremum only if it is strictly beyond it.
RECURSIVE ExtremumLoop(_, _, _)
ExtremumLoop(coords, k, ec) ==
  IF k > Len(coords) THEN ec
  ELSE LET c == coords[k]
       IN  ExtremumLoop(coords, k + 1,
             [minX |-> IF c[1] < ec.minX[1] THEN c ELSE ec.minX,
              maxX |-> IF c[1] > ec.maxX[1] THEN c ELSE ec.maxX,
              minY |-> IF c[2] < ec.minY[2] THEN c ELSE ec.minY,
              maxY |-> IF c[2] > ec.maxY[2] THEN c ELSE ec.maxY])

ComputeExtremumCoords(coords) ==
  IF Len(coords) = 0
  THEN [minX |-> Null, maxX |-> Null, minY |-> Null, maxY |-> Null]
  ELSE ExtremumLoop(coords, 2,
         [minX |-> coords[1], maxX |-> coords[1], minY |-> coords[1], maxY |-> coords[1]])

FlipCoordsHorizontally(coords) ==
  [k \in DOMAIN coords |-> <<U - coords[k][1], coords[k][2]>>]

\* The exception 'Wrong box dimension'.
WrongBoxDimension == [thrown |-> "Wrong box dimension"]

CoordsOutsideBox(box, coords) ==
  IF Len(box) # 2 THEN WrongBoxDimension
  ELSE
    LET boxWidth == box[2][1] - box[1][1]
        boxHeight == box[2][2] - box[1][2]
    IN  [k \in DOMAIN coords |->
           <<box[1][1] + MulFix(boxWidth, coords[k][1]),
             box[1][2] + MulFix(boxHeight, coords[k][2])>>]

\* Mutant: the origin of the box is not taken off.
CoordsInsideBox_IgnoresOrigin(box, coords) ==
  IF Len(box) # 2 THEN WrongBoxDimension
  ELSE
    LET boxWidth == box[2][1] - box[1][1]
        boxHeight == box[2][2] - box[1][2]
        xPadding == U - boxWidth
        yPadding == U - boxHeight
        adj(v, origin, totalPadding) == MulFix(v, DivFix(U, U - totalPadding))
    IN  [k \in DOMAIN coords |->
           <<adj(coords[k][1], box[1][1], xPadding),
             adj(coords[k][2], box[1][2], yPadding)>>]

CoordsInsideBox(box, coords) ==
  IF Len(box) # 2 THEN WrongBoxDimension
  ELSE
    LET boxWidth == box[2][1] - box[1][1]
        boxHeight == box[2][2] - box[1][2]
        xPadding == U - boxWidth
        yPadding == U - boxHeight
        adj(v, origin, totalPadding) == MulFix(v - origin, DivFix(U, U - totalPadding))
    IN  [k \in DOMAIN coords |->
           <<adj(coords[k][1], box[1][1], xPadding),
             adj(coords[k][2], box[1][2], yPadding)>>]

\* ------------------------------------------------ pre_model/preproc_comp
\* SixPointRotationCalculation: constructor, Initialize_ and
\* GetRotationInRadians; the result is in quarter turns.
SixPointRotationCalculation(palmBottom, palmTop, aspectRatio) ==
  LET maxX == (aspectRatio[1] * U) \div aspectRatio[2]
      top == MultiplyVectors(palmTop, <<maxX, U>>)
      bottom == MultiplyVectors(palmBottom, <<maxX, U>>)
      palmLine == SubtractVectors(top, bottom)
      normalizedPalmLine == NormalizeVector(palmLine)
      mainJointLine == <<0 - normalizedPalmLine[2], normalizedPalmLine[1]>>
      carthesianMainJointLine == <<mainJointLine[1], 0 - mainJointLine[2]>>
  IN  Atan2Q(carthesianMainJointLine[2], carthesianMainJointLine[1])

\* Mutant: the bounding box of the four points, whatever their order.
ComputeTopLeftBottomRightFromExtremumCoords_BoundingBox(extremumCoords) ==
  LET ec == ComputeExtremumCoords(extremumCoords)
  IN  << <<ec.minX[1], ec.minY[2]>>, <<ec.maxX[1], ec.maxY[2]>> >>

\* extremumCoords is taken as [minX, maxX, minY, maxY], by position.
ComputeTopLeftBottomRightFromExtremumCoords(extremumCoords) ==
  << <<At(extremumCoords, 0)[1], At(extremumCoords, 2)[2]>>,
     <<At(extremumCoords, 1)[1], At(extremumCoords, 3)[2]>> >>

\* Mutant: the slack is taken off the box.
AddSlackPx_Shrinks(topLeftBottomRight, ar, slackPx) ==
  << <<topLeftBottomRight[1][1] + slackPx \div ar[1],
       topLeftBottomRight[1][2] + slackPx \div ar[2]>>,
     <<topLeftBottomRight[2][1] - slackPx \div ar[1],
       topLeftBottomRight[2][2] - slackPx \div ar[2]>> >>

\* Widens the box by slackPx pixels, given in relative units per axis.
AddSlackPx(topLeftBottomRight, ar, slackPx) ==
  << <<topLeftBottomRight[1][1] - slackPx \div ar[1],
       topLeftBottomRight[1][2] - slackPx \div ar[2]>>,
     <<topLeftBottomRight[2][1] + slackPx \div ar[1],
       topLeftBottomRight[2][2] + slackPx \div ar[2]>> >>

AddBoxSlack(boxCoords, topLeftBottomRight, ar, slack) ==
  LET absCoords == MakeCoordsAbsolute(boxCoords, ar[1], ar[2])
      slackPx == MulFix(ComputeDistanceBetweenVectors(At(absCoords, 0), At(absCoords, 1)), slack)
  IN  AddSlackPx(topLeftBottomRight, ar, slackPx)

\* The exception 'wrong num coords'.
WrongNumCoords == [thrown |-> "wrong num coords"]

\* Mutant: more than six coordinates are let through.
ComputePreprocInfoFromBoxCoords_AtLeastSix(coords, ar, slack) ==
  IF Len(coords) < 6 THEN WrongNumCoords
  ELSE
    LET rotationInRadians == SixPointRotationCalculation(At(coords, 0), At(coords, 1), ar)
        extremumCoords == <<At(coords, 2), At(coords, 3), At(coords, 4), At(coords, 5)>>
        rotationCenter == DivideVectors(AddVectors(At(coords, 0), At(coords, 1)), <<2 * U, 2 * U>>)
        araRot == AspectRatioAwareRotation(rotationCenter, rotationInRadians, ar)
        rotatedExtremumCoords == AraApply(araRot, extremumCoords)
        topLeftBottomRight ==
          AddBoxSlack(coords,
                      ComputeTopLeftBottomRightFromExtremumCoords(rotatedExtremumCoords),
                      ar, slack)
    IN  [topLeft |-> topLeftBottomRight[1],
         bottomRight |-> topLeftBottomRight[2],
         rotationInRadians |-> rotationInRadians,
         rotationCenter |-> rotationCenter,
         flip |-> FALSE]

ComputePreprocInfoFromBoxCoords(coords, ar, slack) ==
  IF Len(coords) # 6 THEN WrongNumCoords
  ELSE
    LET rotationInRadians == SixPointRotationCalculation(At(coords, 0), At(coords, 1), ar)
        extremumCoords == <<At(coords, 2), At(coords, 3), At(coords, 4), At(coords, 5)>>
        rotationCenter == DivideVectors(AddVectors(At(coords, 0), At(coords, 1)), <<2 * U, 2 * U>>)
        araRot == AspectRatioAwareRotation(rotationCenter, rotationInRadians, ar)
        rotatedExtremumCoords == AraApply(araRot, extremumCoords)
        topLeftBottomRight ==
          AddBoxSlack(coords,
                      ComputeTopLeftBottomRightFromExtremumCoords(rotatedExtremumCoords),
                      ar, slack)
    IN  [topLeft |-> topLeftBottomRight[1],
         bottomRight |-> topLeftBottomRight[2],
         rotationInRadians |-> rotationInRadians,
         rotationCenter |-> rotationCenter,
         flip |-> FALSE]

\* The landmark pairs whose pixel distances AddLanSlack compares.
LanSlackPairs == << <<20, 16>>, <<20, 1>>, <<20, 5>>, <<20, 9>>, <<20, 13>>, <<13, 1>> >>

AddLanSlack(topLeftBottomRight, ar, slack, coords) ==
  LET absCoords == MakeCoordsAbsolute(coords, ar[1], ar[2])
      distances == [k \in DOMAIN LanSlackPairs |->
                      ComputeDistanceBetweenVectors(At(absCoords, LanSlackPairs[k][1]),
                                                    At(absCoords, LanSlackPairs[k][2]))]
      maxDistance == CHOOSE d \in Range(distances) \cup {0 - 1} :
                       \A e \in Range(distances) \cup {0 - 1} : d >= e
      slackPx == MulFix(maxDistance, slack)
  IN  AddSlackPx(topLeftBottomRight, ar, slackPx)

ComputePreprocInfoFromLanCoords(coords, ar, slack) ==
  LET palmBottom == At(coords, 20)
      palmTop == At(coords, 5)
      rotationCenter == DivideVectors(AddVectors(palmBottom, palmTop), <<2 * U, 2 * U>>)
      rotationInRadians == SixPointRotationCalculation(palmBottom, palmTop, ar)
      araRot == AspectRatioAwareRotation(rotationCenter, rotationInRadians, ar)
      rotatedCoords == AraApply(araRot, coords)
      ec == ComputeExtremumCoords(rotatedCoords)
      ecArray == <<ec.minX, ec.maxX, ec.minY, ec.maxY>>
      topLeftBottomRight ==
        AddLanSlack(ComputeTopLeftBottomRightFromExtremumCoords(ecArray), ar, slack, coords)
  IN  [topLeft |-> topLeftBottomRight[1],
       bottomRight |-> topLeftBottomRight[2],
       rotationInRadians |-> rotationInRadians,
       rotationCenter |-> rotationCenter,
       flip |-> FALSE]

\* ------------------------------------------------ post_model/post_model
\* Mutant: index 16 is listed twice, index 17 not at all.
USER_FRIENDLY_COORD_ORDER_Repeats16 ==
  <<16, 16, 18, 19, 1, 0, 2, 3, 5, 4, 6, 7, 9, 8, 10, 11, 13, 12, 14, 15, 20>>

USER_FRIENDLY_COORD_ORDER ==
  <<17, 16, 18, 19, 1, 0, 2, 3, 5, 4, 6, 7, 9, 8, 10, 11, 13, 12, 14, 15, 20>>

ConvertLandmarkCoordinatesToGlobalCoordinates(preprocInfo, aspectRatio, coords) ==
  LET p == preprocInfo
      araRot == AspectRatioAwareRotation(p.rotationCenter, p.rotationInRadians, aspectRatio)
  IN  AraApplyReverse(araRot, CoordsOutsideBox(<<p.topLeft, p.bottomRight>>, coords))

\* Mutant: the hand presence class is passed on as it is.
AssembleTrackResultFromCoordinatesAndClasses_NotInverted(coords, classes) ==
  [coordinates |-> coords,
   poses |-> [pinchProb |-> At(classes, 0), fistProb |-> At(classes, 1)],
   isLeftHandProb |-> At(classes, 3),
   isHandPresentProb |-> At(classes, 2)]

AssembleTrackResultFromCoordinatesAndClasses(coords, classes) ==
  [coordinates |-> coords,
   poses |-> [pinchProb |-> At(classes, 0), fistProb |-> At(classes, 1)],
   isLeftHandProb |-> At(classes, 3),
   isHandPresentProb |-> U - At(classes, 2)]

MirrorCoordinatesHorizontally(coords) == FlipCoordsHorizontally(coords)

\* Mutant: the padding is removed at the top and the left only.
ApplyPaddingToCoordinates_TopLeftOnly(padding, coords) ==
  LET d == padding
      topLeft == <<d, d>>
      bottomRight == <<U, U>>
  IN  CoordsInsideBox(<<topLeft, bottomRight>>, coords)

ApplyPaddingToCoordinates(padding, coords) ==
  LET d == padding
      topLeft == <<d, d>>
      bottomRight == <<U - d, U - d>>
  IN  CoordsInsideBox(<<topLeft, bottomRight>>, coords)

MakeCoordinateOrderUserFriendly(coords) ==
  [k \in DOMAIN USER_FRIENDLY_COORD_ORDER |-> At(coords, USER_FRIENDLY_COORD_ORDER[k])]

\* ----------------------------------------------------- engine/base: config
ConfigKeys ==
  {"mirrorX", "padding", "minHandPresenceProbabilityThreshold",
   "__userFriendlyCoordinateOrder", "__boxSlack"}

DEFAULT_CONFIG ==
  [k \in ConfigKeys |->
     CASE k = "mirrorX" -> TRUE
       [] k = "padding" -> 0
       [] k = "minHandPresenceProbabilityThreshold" -> U \div 2
       [] k = "__userFriendlyCoordinateOrder" -> TRUE
       [] k = "__boxSlack" -> (3 * U) \div 4]


\* Mutant: a field both objects have takes the source's value.
ApplyConfigDefaults_SourceWins(srcConfig, trgConfig) ==
  IF srcConfig = Null \/ trgConfig = Null THEN trgConfig
  ELSE [key \in DOMAIN srcConfig \cup DOMAIN trgConfig |->
          IF key \in DOMAIN srcConfig THEN srcConfig[key] ELSE trgConfig[key]]

\* ApplyConfigDefaults of engine/base.ts fills the target object in place;
\* the operator yields the target object as it is after the call.  The
\* fields are primitives, so the recursive call on a key both objects have
\* returns at once and leaves the target's value.
ApplyConfigDefaults(srcConfig, trgConfig) ==
  IF srcConfig = Null \/ trgConfig = Null THEN trgConfig
  ELSE [key \in DOMAIN srcConfig \cup DOMAIN trgConfig |->
          IF key \in DOMAIN trgConfig THEN trgConfig[key] ELSE srcConfig[key]]

\* The config object StartEngine works with after its first three lines.
EffectiveConfig(config) ==
  ApplyConfigDefaults(DEFAULT_CONFIG, IF config = Null THEN DEFAULT_CONFIG ELSE config)

ApplyPostProcessingToCoordinates(config, coords) ==
  LET c1 == IF config["padding"] # 0
            THEN ApplyPaddingToCoordinates(config["padding"], coords) ELSE coords
      c2 == IF config["mirrorX"] THEN MirrorCoordinatesHorizontally(c1) ELSE c1
  IN  IF config["__userFriendlyCoordinateOrder"]
      THEN MakeCoordinateOrderUserFriendly(c2) ELSE c2

\* Mutant: the box branch rotates about the frame's corner.
BOX_PREPROC_INFO_OffCentre ==
  [topLeft |-> <<0, 0>>,
   bottomRight |-> <<U, U>>,
   flip |-> FALSE,
   rotationCenter |-> <<0, 0>>,
   rotationInRadians |-> 0]

BOX_PREPROC_INFO ==
  [topLeft |-> <<0, 0>>,
   bottomRight |-> <<U, U>>,
   flip |-> FALSE,
   rotationCenter |-> <<U \div 2, U \div 2>>,
   rotationInRadians |-> 0]

\* ------------------------------------------------------- inputs of a run
\* Box model outputs: an upright hand, a hand turned by a quarter turn,
\* and two outputs that break the six point contract.
BoxUpright ==
  << <<5000, 6000>>, <<5000, 4000>>, <<3000, 3000>>, <<7000, 3000>>, <<3000, 7000>>, <<7000, 7000>> >>

BoxTurned ==
  << <<4000, 5000>>, <<6000, 5000>>, <<3000, 4000>>, <<7000, 6000>>, <<5000, 3000>>, <<5000, 7000>> >>

BoxOutputs ==
  {[coordinates |-> BoxUpright, classes |-> <<>>],
   [coordinates |-> BoxTurned, classes |-> <<>>],
   [coordinates |-> SubSeq(BoxUpright, 1, 5), classes |-> <<>>],
   [coordinates |-> BoxUpright \o << <<5000, 5000>> >>, classes |-> <<>>]}

\* Landmark model outputs (21 points in the crop's own frame): the base of
\* the hand is point 20, the palm top is point 5.
LanUpright ==
  [k \in 1..21 |->
     CASE k - 1 = 20 -> <<5000, 9000>>
       [] k - 1 = 5 -> <<5000, 5000>>
       [] OTHER -> <<2000 + 1500 * ((k - 1) % 5), 1000 + 2000 * ((k - 1) \div 5)>>]

LanTurned ==
  [k \in 1..21 |->
     CASE k - 1 = 20 -> <<1000, 5000>>
       [] k - 1 = 5 -> <<5000, 5000>>
       [] OTHER -> <<3000 + 2000 * ((k - 1) \div 5), 2000 + 1500 * ((k - 1) % 5)>>]

\* classes = [pinch, fist, hand absent, left hand].
LanClasses == {<<U, 0, 0, 0>>, <<0, U, U \div 2, U>>, <<0, 0, U, 0>>}

LanOutputs ==
  {[coordinates |-> c, classes |-> cl] : c \in {LanUpright, LanTurned}, cl \in LanClasses}

\* Configs the caller starts a run with.
RunConfigs ==
  {Null,
   [k \in {"padding"} |-> U \div 10],
   [k \in {"mirrorX", "minHandPresenceProbabilityThreshold", "__userFriendlyCoordinateOrder"} |->
      CASE k = "mirrorX" -> FALSE
        [] k = "minHandPresenceProbabilityThreshold" -> (4 * U) \div 5
        [] k = "__userFriendlyCoordinateOrder" -> FALSE]}

\* Input dimensions [height, width] a model may have.
ModelDims == {<<1, 1>>, <<1, 2>>, <<2, 1>>}

\* ------------------------------------------------------------------ state
VARIABLES
  entryPoint,     \* the exported function the caller starts the engine with
  boxDims,        \* GetInputDimensionsFromTfjsModel(boxModel)
  lanDims,        \* GetInputDimensionsFromTfjsModel(lanModel)
  trackSource,    \* [width, height] of the analysed element
  callerConfig,   \* the config argument as the caller built it
  config,         \* the config object StartEngine reads
  pc,             \* where the engine's async function is suspended
  promise,        \* state of the promise the caller received
  stopped,        \* StartEngine's local flag
  stopRequested,  \* the caller has asked for the analysis to stop
  preprocInfo,    \* StartEngine's local crop window, or Null
  modelInput,     \* crop window the shared target canvas was drawn with
  boxRes,         \* last output of boxCb
  lanRes,         \* last output of lanCb
  results,        \* the results handed to resCb, in order
  tickLog,        \* per landmark tick: what the loop body converted and assigned
  log             \* calls and returns of the callbacks, in order

engineVars ==
  <<entryPoint, boxDims, lanDims, trackSource, callerConfig, config, pc, promise,
    stopped, stopRequested, preprocInfo, modelInput, boxRes, lanRes, results, tickLog, log>>

VARIABLES
  totalReceived,  \* the aggregator's sum of received bytes
  totalSize,      \* the aggregator's sum of sizes
  first,          \* per download callback: not invoked yet
  prev,           \* per download callback: received value of its last call
  combinedArgs,   \* arguments of the last call of combinedProgressCb, or Null
  dlPc,           \* per download: who reports its progress, and how far it is
  dlSize,         \* per download: sum of the Content-Length headers
  dlBody,         \* per download: bytes its streams have not delivered yet
  dlReceived,     \* per download: DownloadBlobs' count of received bytes
  reported        \* per download: its newest and its first report, and whether
                  \* its received values have never gone down (Null: no report)

progressVars ==
  <<totalReceived, totalSize, first, prev, combinedArgs, dlPc, dlSize, dlBody,
    dlReceived, reported>>

VARIABLES
  calcIn,         \* the function a caller applies and its arguments, or Null
  calcOut         \* what the call returned or threw, or Null before the call

calcVars == <<calcIn, calcOut>>

VARIABLES
  device,         \* the camera getUserMedia finds: its frame rate and resolution
  streamPc,       \* where CreateMaxFpsMaxResStream is
  gumCalls,       \* the constraints of the getUserMedia calls made, in order
  gumOutcomes,    \* how the getUserMedia promises settled, in order
  streamResult    \* what CreateMaxFpsMaxResStream returned or threw, or Null

streamVars == <<device, streamPc, gumCalls, gumOutcomes, streamResult>>

VARIABLES
  API,            \* engine_helper's module variable: the cached API, or Null
  loadCalls,      \* how many times Load has been called
  cePc,           \* per CreateEngine call: where it is
  ceLoad,         \* per CreateEngine call: which call of Load it made (0: none)
  ceEngine        \* per CreateEngine call: the engine it resolved with, or Null

glueVars == <<API, loadCalls, cePc, ceLoad, ceEngine>>

VARIABLES
  pad_,           \* CanvasBasedPreprocessing's flag, set by Init
  canvas_,        \* its canvas: the context's current transform and the pixels
  canvasBefore,   \* the canvas as the newest Preprocess call found it, or Null
  lastPreprocInfo,\* the crop window of the newest Preprocess call, or Null
  preprocessCalls \* number of Preprocess calls made

canvasVars == <<pad_, canvas_, canvasBefore, lastPreprocInfo, preprocessCalls>>

utilVars == <<streamVars, glueVars, canvasVars>>

vars == <<engineVars, progressVars, calcVars, utilVars>>

Call(ev, info) == [ev |-> ev, ph |-> "call", info |-> info]

Ret(ev) == [ev |-> ev, ph |-> "ret", info |-> Null]

EngineInit(configs) ==
  /\ entryPoint \in {"StartTfjsEngine", "StartWebGlEngine"}
  /\ boxDims = <<1, 1>>
  /\ lanDims \in ModelDims
  /\ trackSource = <<100, 100>>
  /\ callerConfig \in configs
  /\ config = callerConfig
  /\ pc = "loading"
  /\ promise = "pending"
  /\ stopped = FALSE
  /\ stopRequested = FALSE
  /\ preprocInfo = Null
  /\ modelInput = Null
  /\ boxRes = Null
  /\ lanRes = Null
  /\ results = <<>>
  /\ tickLog = <<>>
  /\ log = <<>>

\* ---------------------------------------------------------------- actions
\* The top of the while loop, reached with the flag, the crop window and
\* the log as given: the loop ends and the function returns the stop
\* callback, or it requests the animation frame of the next model call.
LoopHead(stoppedNow, infoNow, logNow) ==
  IF stoppedNow
  THEN /\ pc' = "returned"
       /\ promise' = "resolved"
       /\ log' = logNow
  ELSE /\ pc' = IF infoNow = Null THEN "rafBox" ELSE "rafLan"
       /\ promise' = promise
       /\ log' = Append(logNow, Call("raf", Null))

\* StartEngine up to its first await.
StartEngine ==
  /\ config' = EffectiveConfig(config)
  /\ stopped' = FALSE
  /\ preprocInfo' = Null
  /\ LoopHead(FALSE, Null, Append(log, Call("StartEngine", Null)))

\* Mutant: only the first input dimension is compared.
StartWithModels_FirstDimOnly ==
  IF boxDims[1] # lanDims[1]
  THEN /\ pc' = "failed"
       /\ promise' = "rejected"
       /\ UNCHANGED <<config, stopped, preprocInfo, log>>
  ELSE StartEngine

\* The check of the input dimensions and what follows it.
StartWithModels ==
  IF boxDims[1] # lanDims[1] \/ boxDims[2] # lanDims[2]
  THEN /\ pc' = "failed"
       /\ promise' = "rejected"
       /\ UNCHANGED <<config, stopped, preprocInfo, log>>
  ELSE StartEngine

\* StartTfjsEngine, resumed when both models are created.
StartTfjsEngine ==
  /\ pc = "loading"
  /\ entryPoint = "StartTfjsEngine"
  /\ StartWithModels
  /\ UNCHANGED <<tickLog, entryPoint, boxDims, lanDims, trackSource, callerConfig,
                 stopRequested, modelInput, boxRes, lanRes, results>>
  /\ UNCHANGED <<progressVars, calcVars, utilVars>>

\* StartWebGlEngine, resumed when both models are created.
StartWebGlEngine ==
  /\ pc = "loading"
  /\ entryPoint = "StartWebGlEngine"
  /\ StartWithModels
  /\ UNCHANGED <<tickLog, entryPoint, boxDims, lanDims, trackSource, callerConfig,
                 stopRequested, modelInput, boxRes, lanRes, results>>
  /\ UNCHANGED <<progressVars, calcVars, utilVars>>

\* The animation frame of the box branch arrives: preprocCb is called with
\* the full frame.
RafBoxDone ==
  /\ pc = "rafBox"
  /\ Len(results) < MaxTicks
  /\ pc' = "preprocBox"
  /\ log' = log \o <<Ret("raf"), Call("preprocCb", BOX_PREPROC_INFO)>>
  /\ UNCHANGED <<tickLog, entryPoint, boxDims, lanDims, trackSource, callerConfig, config, promise,
                 stopped, stopRequested, preprocInfo, modelInput, boxRes, lanRes, results>>
  /\ UNCHANGED <<progressVars, calcVars, utilVars>>

\* preprocCb has drawn the full frame: boxCb is called with the canvas.
PreprocBoxDone ==
  /\ pc = "preprocBox"
  /\ pc' = "boxCb"
  /\ modelInput' = BOX_PREPROC_INFO
  /\ log' = log \o <<Ret("preprocCb"), Call("boxCb", BOX_PREPROC_INFO)>>
  /\ UNCHANGED <<tickLog, entryPoint, boxDims, lanDims, trackSource, callerConfig, config, promise,
                 stopped, stopRequested, preprocInfo, boxRes, lanRes, results>>
  /\ UNCHANGED <<progressVars, calcVars, utilVars>>

\* Mutant: the landmark branch does not wait for an animation frame after
\* the box model.
BoxCbDone_NoWait(res) ==
  /\ pc = "boxCb"
  /\ boxRes' = res
  /\ LET info == ComputePreprocInfoFromBoxCoords(res.coordinates, trackSource,
                                                 config["__boxSlack"])
     IN  IF info = WrongNumCoords
         THEN /\ pc' = "failed"
              /\ promise' = "rejected"
              /\ log' = Append(log, Ret("boxCb"))
              /\ UNCHANGED preprocInfo
         ELSE /\ pc' = "preprocLan"
              /\ promise' = promise
              /\ preprocInfo' = info
              /\ log' = log \o <<Ret("boxCb"), Call("preprocCb", info)>>
  /\ UNCHANGED <<tickLog, entryPoint, boxDims, lanDims, trackSource, callerConfig, config,
                 stopped, stopRequested, modelInput, lanRes, results>>
  /\ UNCHANGED <<progressVars, calcVars, utilVars>>

\* boxCb resolves with res: the crop window is computed from it (or the
\* computation throws and the async function rejects), then the animation
\* frame of the landmark call is requested.
BoxCbDone(res) ==
  /\ pc = "boxCb"
  /\ boxRes' = res
  /\ LET info == ComputePreprocInfoFromBoxCoords(res.coordinates, trackSource,
                                                 config["__boxSlack"])
     IN  IF info = WrongNumCoords
         THEN /\ pc' = "failed"
              /\ promise' = "rejected"
              /\ log' = Append(log, Ret("boxCb"))
              /\ UNCHANGED preprocInfo
         ELSE /\ pc' = "rafLan"
              /\ promise' = promise
              /\ preprocInfo' = info
              /\ log' = log \o <<Ret("boxCb"), Call("raf", Null)>>
  /\ UNCHANGED <<tickLog, entryPoint, boxDims, lanDims, trackSource, callerConfig, config,
                 stopped, stopRequested, modelInput, lanRes, results>>
  /\ UNCHANGED <<progressVars, calcVars, utilVars>>

\* The animation frame of the landmark branch arrives: preprocCb is called
\* with the current crop window.
RafLanDone ==
  /\ pc = "rafLan"
  /\ Len(results) < MaxTicks
  /\ pc' = "preprocLan"
  /\ log' = log \o <<Ret("raf"), Call("preprocCb", preprocInfo)>>
  /\ UNCHANGED <<tickLog, entryPoint, boxDims, lanDims, trackSource, callerConfig, config, promise,
                 stopped, stopRequested, preprocInfo, modelInput, boxRes, lanRes, results>>
  /\ UNCHANGED <<progressVars, calcVars, utilVars>>

\* Mutant: lanCb is called while preprocCb is still drawing.
PreprocLanDone_NotAwaited ==
  /\ pc = "preprocLan"
  /\ pc' = "lanCb"
  /\ log' = Append(log, Call("lanCb", preprocInfo))
  /\ UNCHANGED <<tickLog, entryPoint, boxDims, lanDims, trackSource, callerConfig, config, promise,
                 stopped, stopRequested, preprocInfo, modelInput, boxRes, lanRes, results>>
  /\ UNCHANGED <<progressVars, calcVars, utilVars>>

\* preprocCb has drawn the crop: lanCb is called with the canvas.
PreprocLanDone ==
  /\ pc = "preprocLan"
  /\ pc' = "lanCb"
  /\ modelInput' = preprocInfo
  /\ log' = log \o <<Ret("preprocCb"), Call("lanCb", preprocInfo)>>
  /\ UNCHANGED <<tickLog, entryPoint, boxDims, lanDims, trackSource, callerConfig, config, promise,
                 stopped, stopRequested, preprocInfo, boxRes, lanRes, results>>
  /\ UNCHANGED <<progressVars, calcVars, utilVars>>

\* Mutant: the landmark output is mapped back as if it were of the full frame.
TickResult_FullFrame(info, res) ==
  LET coords == ConvertLandmarkCoordinatesToGlobalCoordinates(
                  BOX_PREPROC_INFO, trackSource, res.coordinates)
  IN  AssembleTrackResultFromCoordinatesAndClasses(
        ApplyPostProcessingToCoordinates(config, coords), res.classes)

\* The result StartEngine, run with the config object cfg, assembles from a
\* landmark output that was computed on the crop window info.
TickResultOf(cfg, info, res) ==
  LET coords == ConvertLandmarkCoordinatesToGlobalCoordinates(info, trackSource, res.coordinates)
  IN  AssembleTrackResultFromCoordinatesAndClasses(
        ApplyPostProcessingToCoordinates(cfg, coords), res.classes)

\* The same in the run at hand, whose config object is config.
TickResult(info, res) == TickResultOf(config, info, res)

\* What the loop body, run with the config object cfg, does with the
\* landmark output res on the crop window info, before it looks at the
\* hand presence: the call of
\* ConvertLandmarkCoordinatesToGlobalCoordinates and the crop window it
\* assigns from ComputePreprocInfoFromLanCoords.
\* Mutant: the next crop window is derived from the mirrored coordinates
\* when the results are mirrored.
TickBodyOf_FromMirrored(cfg, info, res) ==
  LET coords == ConvertLandmarkCoordinatesToGlobalCoordinates(info, trackSource, res.coordinates)
  IN  [convertedWith |-> info,
       lanRes |-> res,
       assigned |-> ComputePreprocInfoFromLanCoords(
                      IF cfg["mirrorX"] THEN MirrorCoordinatesHorizontally(coords) ELSE coords,
                      trackSource, cfg["__boxSlack"])]

TickBodyOf(cfg, info, res) ==
  LET coords == ConvertLandmarkCoordinatesToGlobalCoordinates(info, trackSource, res.coordinates)
  IN  [convertedWith |-> info,
       lanRes |-> res,
       assigned |-> ComputePreprocInfoFromLanCoords(coords, trackSource, cfg["__boxSlack"])]

TickBody(info, res) == TickBodyOf(config, info, res)

\* Mutant: the crop window survives a result without a hand.
TickPreprocInfo_KeepsCrop(body, result) == body.assigned

\* Mutant: a result at the threshold counts as a result without a hand.
TickPreprocInfo_SeeksAtThreshold(body, result) ==
  IF result.isHandPresentProb <= config["minHandPresenceProbabilityThreshold"]
  THEN Null
  ELSE body.assigned

\* The crop window StartEngine holds at the end of a tick: the one the
\* body assigned, or null after a result without a hand.
TickPreprocInfoOf(cfg, body, result) ==
  IF result.isHandPresentProb < cfg["minHandPresenceProbabilityThreshold"]
  THEN Null
  ELSE body.assigned

TickPreprocInfo(body, result) == TickPreprocInfoOf(config, body, result)

\* Mutant: a result without a hand is not handed to resCb.
LanCbDone_SkipsAbsentHand(res) ==
  LET result == TickResult(preprocInfo, res)
      absent == result.isHandPresentProb < config["minHandPresenceProbabilityThreshold"]
  IN  /\ pc = "lanCb"
      /\ lanRes' = res
      /\ tickLog' = Append(tickLog, TickBody(preprocInfo, res))
      /\ results' = IF absent THEN results ELSE Append(results, result)
      /\ preprocInfo' = TickPreprocInfo(tickLog'[Len(tickLog')], result)
      /\ LoopHead(stopped, preprocInfo',
                  IF absent THEN Append(log, Ret("lanCb"))
                  ELSE log \o <<Ret("lanCb"), Call("resCb", Null), Ret("resCb")>>)
      /\ UNCHANGED <<entryPoint, boxDims, lanDims, trackSource, callerConfig, config,
                     stopped, stopRequested, modelInput, boxRes>>
      /\ UNCHANGED <<progressVars, calcVars, utilVars>>

\* lanCb resolves with res: the rest of the loop body runs, resCb is called
\* (and returns), and the loop condition is evaluated.
LanCbDone(res) ==
  /\ pc = "lanCb"
  /\ lanRes' = res
  /\ tickLog' = Append(tickLog, TickBody(preprocInfo, res))
  /\ results' = Append(results, TickResult(preprocInfo, res))
  /\ preprocInfo' = TickPreprocInfo(tickLog'[Len(tickLog')], results'[Len(results')])
  /\ LoopHead(stopped, preprocInfo',
              log \o <<Ret("lanCb"), Call("resCb", Null), Ret("resCb")>>)
  /\ UNCHANGED <<entryPoint, boxDims, lanDims, trackSource, callerConfig, config,
                 stopped, stopRequested, modelInput, boxRes>>
  /\ UNCHANGED <<progressVars, calcVars, utilVars>>

\* The caller asks for the analysis to stop: it invokes the stop callback
\* if the promise has handed it one.
RequestStop ==
  /\ stopRequested' = TRUE
  /\ stopped' = IF promise = "resolved" THEN TRUE ELSE stopped
  /\ UNCHANGED <<tickLog, entryPoint, boxDims, lanDims, trackSource, callerConfig, config, pc, promise,
                 preprocInfo, modelInput, boxRes, lanRes, results, log>>
  /\ UNCHANGED <<progressVars, calcVars, utilVars>>

EngineStep ==
  \/ StartTfjsEngine
  \/ StartWebGlEngine
  \/ RafBoxDone
  \/ PreprocBoxDone
  \/ \E res \in BoxOutputs : BoxCbDone(res)
  \/ RafLanDone
  \/ PreprocLanDone
  \/ \E res \in LanOutputs : LanCbDone(res)

\* --------------------------------------------- model/base: download progress
Downloads == 1..NumDownloads

\* No download of the aggregator has reported; the callbacks exist, as
\* after the loop of DownloadMultipleModelBlobs.
ProgressIdle ==
  /\ totalReceived = 0
  /\ totalSize = 0
  /\ first = [d \in Downloads |-> TRUE]
  /\ prev = [d \in Downloads |-> 0]
  /\ combinedArgs = Null
  /\ dlReceived = [d \in Downloads |-> 0]
  /\ reported = [d \in Downloads |-> Null]

\* A download either runs DownloadBlobs ("fetch") or is a download
\* callback of the caller that reports what it likes ("caller").
ProgressInit ==
  /\ ProgressIdle
  /\ dlPc \in [Downloads -> {"fetch", "caller"}]
  /\ dlSize \in [Downloads -> 0..MaxBytes]
  /\ dlBody \in [Downloads -> 0..MaxBytes]
  /\ \A d \in Downloads : dlPc[d] = "caller" => dlSize[d] = 0 /\ dlBody[d] = 0

\* Mutant: the download's earlier contribution is not taken out.
DownloadProgressCb_AddsAgain(d, r, t) ==
  /\ totalReceived' = totalReceived + r
  /\ prev' = [prev EXCEPT ![d] = r]
  /\ totalSize' = IF first[d] THEN totalSize + t ELSE totalSize
  /\ first' = [first EXCEPT ![d] = FALSE]
  /\ combinedArgs' = <<totalReceived', totalSize'>>
  /\ reported' = [reported EXCEPT ![d] =
                    IF reported[d] = Null
                    THEN [newest |-> <<r, t>>, first |-> <<r, t>>, nondecreasing |-> TRUE]
                    ELSE [newest |-> <<r, t>>, first |-> reported[d].first,
                          nondecreasing |-> reported[d].nondecreasing /\ r >= reported[d].newest[1]]]

\* Mutant: the new value is taken out and the earlier one is added.
DownloadProgressCb_SwapsPrev(d, r, t) ==
  /\ totalReceived' = totalReceived + prev[d] - r
  /\ prev' = [prev EXCEPT ![d] = r]
  /\ totalSize' = IF first[d] THEN totalSize + t ELSE totalSize
  /\ first' = [first EXCEPT ![d] = FALSE]
  /\ combinedArgs' = <<totalReceived', totalSize'>>
  /\ reported' = [reported EXCEPT ![d] =
                    IF reported[d] = Null
                    THEN [newest |-> <<r, t>>, first |-> <<r, t>>, nondecreasing |-> TRUE]
                    ELSE [newest |-> <<r, t>>, first |-> reported[d].first,
                          nondecreasing |-> reported[d].nondecreasing /\ r >= reported[d].newest[1]]]

\* Mutant: first is shared by all downloads, so only the first report of
\* the first download adds its total.
DownloadProgressCb_SharedFirst(d, r, t) ==
  /\ totalReceived' = totalReceived - prev[d] + r
  /\ prev' = [prev EXCEPT ![d] = r]
  /\ totalSize' = IF \A e \in Downloads : first[e] THEN totalSize + t ELSE totalSize
  /\ first' = [first EXCEPT ![d] = FALSE]
  /\ combinedArgs' = <<totalReceived', totalSize'>>
  /\ reported' = [reported EXCEPT ![d] =
                    IF reported[d] = Null
                    THEN [newest |-> <<r, t>>, first |-> <<r, t>>, nondecreasing |-> TRUE]
                    ELSE [newest |-> <<r, t>>, first |-> reported[d].first,
                          nondecreasing |-> reported[d].nondecreasing /\ r >= reported[d].newest[1]]]

\* The callback CreateProgressCbCreationCbForMultipleDownloads hands to
\* download d, called with (r, t).
DownloadProgressCb(d, r, t) ==
  /\ totalReceived' = totalReceived - prev[d] + r
  /\ prev' = [prev EXCEPT ![d] = r]
  /\ totalSize' = IF first[d] THEN totalSize + t ELSE totalSize
  /\ first' = [first EXCEPT ![d] = FALSE]
  /\ combinedArgs' = <<totalReceived', totalSize'>>
  /\ reported' = [reported EXCEPT ![d] =
                    IF reported[d] = Null
                    THEN [newest |-> <<r, t>>, first |-> <<r, t>>, nondecreasing |-> TRUE]
                    ELSE [newest |-> <<r, t>>, first |-> reported[d].first,
                          nondecreasing |-> reported[d].nondecreasing /\ r >= reported[d].newest[1]]]

\* DownloadBlobs of download d after the responses arrived: it informs the
\* consumer at once.
DownloadBlobsStart(d) ==
  /\ dlPc[d] = "fetch"
  /\ dlPc' = [dlPc EXCEPT ![d] = "read"]
  /\ DownloadProgressCb(d, 0, dlSize[d])
  /\ UNCHANGED <<dlSize, dlBody, dlReceived>>
  /\ UNCHANGED <<engineVars, calcVars, utilVars>>

\* A chunk of numRec bytes of download d arrives in ReadStreamWithProgress.
DownloadBlobsChunk(d, numRec) ==
  /\ dlPc[d] = "read"
  /\ numRec <= dlBody[d]
  /\ dlBody' = [dlBody EXCEPT ![d] = dlBody[d] - numRec]
  /\ dlReceived' = [dlReceived EXCEPT ![d] = dlReceived[d] + numRec]
  /\ DownloadProgressCb(d, dlReceived'[d], dlSize[d])
  /\ UNCHANGED <<dlPc, dlSize>>
  /\ UNCHANGED <<engineVars, calcVars, utilVars>>

\* A download callback of the caller reports (r, t).
CallerProgress(d, r, t) ==
  /\ dlPc[d] = "caller"
  /\ DownloadProgressCb(d, r, t)
  /\ UNCHANGED <<dlPc, dlSize, dlBody, dlReceived>>
  /\ UNCHANGED <<engineVars, calcVars, utilVars>>

\* ------------------------------------------------ calls of the geometry
\* No function is being applied on its own.
CalcOff == calcIn = Null /\ calcOut = Null

\* Palm lines (palm bottom, palm top) along an axis, in all four directions.
PalmLines ==
  {<< <<5000, 6000>>, <<5000, 4000>> >>,
   << <<5000, 4000>>, <<5000, 6000>> >>,
   << <<4000, 5000>>, <<6000, 5000>> >>,
   << <<6000, 5000>>, <<4000, 5000>> >>}

\* Points the box model may put at coords[2..5].
CornerPoints == {<<3000, 3000>>, <<7000, 3000>>, <<3000, 7000>>, <<7000, 7000>>, <<5000, 5000>>}

\* [width, height] of the analysed element.
AspectRatios == {<<100, 100>>, <<200, 100>>}

Slacks == {0, (3 * U) \div 4, U}

\* Landmark outputs with the hand in each of the four directions.
LanDown == [k \in 1..21 |-> <<LanUpright[k][1], U - LanUpright[k][2]>>]

LanTurnedBack == [k \in 1..21 |-> <<U - LanTurned[k][1], LanTurned[k][2]>>]

CropCalls ==
  {[fn |-> "ComputePreprocInfoFromBoxCoords",
    coords |-> palm \o <<c2, c3, c4, c5>>, ar |-> ar, slack |-> slack] :
     palm \in PalmLines, c2 \in CornerPoints, c3 \in CornerPoints,
     c4 \in CornerPoints, c5 \in CornerPoints, ar \in AspectRatios, slack \in {0, (3 * U) \div 4}}
  \cup
  {[fn |-> "ComputePreprocInfoFromLanCoords", coords |-> coords, ar |-> ar, slack |-> slack] :
     coords \in {LanUpright, LanTurned, LanDown, LanTurnedBack},
     ar \in AspectRatios, slack \in Slacks}

\* The caller is about to call fn with the arguments in calcIn.
Called(fn) == calcIn # Null /\ calcOut = Null /\ calcIn.fn = fn

\* The call returns (or throws) out, kept as calcOut.ret; the arguments are
\* left as they are.
Return(out) == calcOut' = [ret |-> out] /\ UNCHANGED <<calcIn, engineVars, progressVars, utilVars>>

CallComputePreprocInfoFromBoxCoords ==
  /\ Called("ComputePreprocInfoFromBoxCoords")
  /\ Return(ComputePreprocInfoFromBoxCoords(calcIn.coords, calcIn.ar, calcIn.slack))

CallComputePreprocInfoFromLanCoords ==
  /\ Called("ComputePreprocInfoFromLanCoords")
  /\ Return(ComputePreprocInfoFromLanCoords(calcIn.coords, calcIn.ar, calcIn.slack))

\* Probabilities a classifier head may put out.
Probs == {0, U \div 4, U \div 2, U}

\* 21 landmarks that carry their index as a label, shifted by off.
Labelled(off) == [k \in 1..21 |-> <<(k - 1) + off, 2 * (k - 1)>>]

\* Paddings whose rescaling factor 1 / (1 - 2 * padding) is exact.
Paddings == {0, 1000, 1875, 2500, 3000, 3750, 4000, 4500}

PostCalls ==
  {[fn |-> "AssembleTrackResultFromCoordinatesAndClasses", coords |-> coords, classes |-> classes] :
     coords \in {LanUpright, Labelled(0)}, classes \in [1..4 -> Probs]}
  \cup
  {[fn |-> "MakeCoordinateOrderUserFriendly", coords |-> coords] :
     coords \in {Labelled(off) : off \in 0..3} \cup {LanUpright, LanTurned}}
  \cup
  {[fn |-> "ApplyPaddingToCoordinates", padding |-> padding,
    coords |-> << <<padding, padding>>, <<U - padding, U - padding>>, c >>] :
     padding \in Paddings, c \in CornerPoints \cup {<<0, 0>>, <<U, U>>, <<U, 0>>}}

CallAssembleTrackResultFromCoordinatesAndClasses ==
  /\ Called("AssembleTrackResultFromCoordinatesAndClasses")
  /\ Return(AssembleTrackResultFromCoordinatesAndClasses(calcIn.coords, calcIn.classes))

CallMakeCoordinateOrderUserFriendly ==
  /\ Called("MakeCoordinateOrderUserFriendly")
  /\ Return(MakeCoordinateOrderUserFriendly(calcIn.coords))

CallApplyPaddingToCoordinates ==
  /\ Called("ApplyPaddingToCoordinates")
  /\ Return(ApplyPaddingToCoordinates(calcIn.padding, calcIn.coords))

\* v is the exception exc.  A result is an array or an exception record;
\* the printed forms are compared, as TLC does not compare an array with a
\* record.
Threw(v, exc) == ToString(v) = ToString(exc)

IsThrown(v) ==
  Threw(v, WrongBoxDimension) \/ Threw(v, UnequalLengthVectors) \/ Threw(v, WrongNumCoords)

\* Calls in a row: calcIn.calls names the functions, the first is applied
\* to calcIn.coords and each later one to what the one before returned;
\* calcOut.results are the results so far.  An exception ends the row.
NextArg ==
  IF calcOut.results = <<>> THEN calcIn.coords ELSE calcOut.results[Len(calcOut.results)]

\* fn is the next function of the row, and nothing was thrown before.
IsNextCall(fn) ==
  /\ calcIn # Null
  /\ DOMAIN calcOut = {"results"}
  /\ Len(calcOut.results) < Len(calcIn.calls)
  /\ calcIn.calls[Len(calcOut.results) + 1] = fn
  /\ ~IsThrown(NextArg)

\* The call returns (or throws) out.
ReturnNext(out) ==
  /\ calcOut' = [results |-> Append(calcOut.results, out)]
  /\ UNCHANGED <<calcIn, engineVars, progressVars, utilVars>>

\* Boxes [topLeft, bottomRight] of non-zero width and height (also negative
\* ones), with sizes whose reciprocal is exact.
BoxSizes == {2000, 5000, 8000, U, 0 - 4000}

Boxes ==
  {<<tl, <<tl[1] + w, tl[2] + h>> >> :
     tl \in {<<0, 0>>, <<1000, 2000>>}, w \in BoxSizes, h \in BoxSizes}

\* Arrays that are not a box: no, one and three points.
NonBoxes == {<<>>, << <<0, 0>> >>, << <<0, 0>>, <<U, U>>, <<U, U>> >>}

GridPoints == {<<0, 0>>, <<1000, 3000>>, <<5000, 5000>>, <<7000, 2000>>, <<U, U>>}

CoordLists ==
  {<<>>} \cup {<<c>> : c \in GridPoints} \cup {<<c, e>> : c \in GridPoints, e \in GridPoints}

\* Transform descriptors with a rotation of whole quarter turns.
Descriptors ==
  {[topLeft |-> box[1], bottomRight |-> box[2], rotationCenter |-> rc,
    rotationInRadians |-> q, flip |-> FALSE] :
     box \in {b \in Boxes : b[2][1] - b[1][1] \in {5000, 8000} /\ b[2][2] - b[1][2] \in {8000, U}},
     rc \in {<<5000, 5000>>, <<4000, 6000>>}, q \in (0 - 2)..2}

TransformCalls ==
  {[calls |-> calls, box |-> box, coords |-> coords] :
     calls \in {<<"CoordsOutsideBox", "CoordsInsideBox">>, <<"CoordsInsideBox", "CoordsOutsideBox">>},
     box \in Boxes \cup NonBoxes, coords \in CoordLists}
  \cup
  {[calls |-> calls, info |-> info, box |-> <<info.topLeft, info.bottomRight>>,
    ar |-> ar, coords |-> coords] :
     calls \in {<<"Apply", "ApplyReverse">>,
                <<"Apply", "CoordsInsideBox", "ConvertLandmarkCoordinatesToGlobalCoordinates">>},
     info \in Descriptors, ar \in AspectRatios,
     coords \in {<<c, <<3000, 7000>>, <<U, 0>> >> : c \in GridPoints}}

CallCoordsOutsideBox ==
  /\ IsNextCall("CoordsOutsideBox")
  /\ ReturnNext(CoordsOutsideBox(calcIn.box, NextArg))

CallCoordsInsideBox ==
  /\ IsNextCall("CoordsInsideBox")
  /\ ReturnNext(CoordsInsideBox(calcIn.box, NextArg))

CallApply ==
  /\ IsNextCall("Apply")
  /\ ReturnNext(AraApply(AspectRatioAwareRotation(calcIn.info.rotationCenter,
                calcIn.info.rotationInRadians, calcIn.ar),
                NextArg))

CallApplyReverse ==
  /\ IsNextCall("ApplyReverse")
  /\ ReturnNext(AraApplyReverse(AspectRatioAwareRotation(calcIn.info.rotationCenter,
                calcIn.info.rotationInRadians, calcIn.ar),
                NextArg))

CallConvertLandmarkCoordinatesToGlobalCoordinates ==
  /\ IsNextCall("ConvertLandmarkCoordinatesToGlobalCoordinates")
  /\ ReturnNext(ConvertLandmarkCoordinatesToGlobalCoordinates(calcIn.info, calcIn.ar, NextArg))

\* Vectors of up to MaxLen numbers, none of them zero.
VectorValues == {0 - U, U \div 2, 2 * U}

Vectors == UNION {[1..n -> VectorValues] : n \in 0..MaxLen}

VectorCalls ==
  {[fn |-> fn, a |-> a, b |-> b] :
     fn \in {"AddVectors", "SubtractVectors", "MultiplyVectors", "DivideVectors"},
     a \in Vectors, b \in Vectors}

CallAddVectors ==
  /\ Called("AddVectors")
  /\ Return(AddVectors(calcIn.a, calcIn.b))

CallSubtractVectors ==
  /\ Called("SubtractVectors")
  /\ Return(SubtractVectors(calcIn.a, calcIn.b))

CallMultiplyVectors ==
  /\ Called("MultiplyVectors")
  /\ Return(MultiplyVectors(calcIn.a, calcIn.b))

CallDivideVectors ==
  /\ Called("DivideVectors")
  /\ Return(DivideVectors(calcIn.a, calcIn.b))

\* ------------------------------------------------- util/stream_helper
MediaStreamErrorEnum ==
  [ABORT_ERROR |-> "AbortError",
   NOT_ALLOWED_ERROR |-> "NotAllowedError",
   NOT_FOUND_ERROR |-> "NotFoundError",
   NOT_READABLE_ERROR |-> "NotReadableError",
   OVERCONSTRAINTED_ERROR |-> "OverconstrainedError",
   SECURITY_ERROR |-> "SecurityError",
   TYPE_ERROR |-> "TypeError"]

MEDIA_STREAM_ERROR_NAMES == {MediaStreamErrorEnum[k] : k \in DOMAIN MediaStreamErrorEnum}

\* The local fps of CreateMaxFpsMaxResStream.
StreamFps == <<60, 30, 24>>

StreamIdealWidth == 4096

StreamIdealHeight == 2048

\* The constraints of the request of loop index i; the request after the
\* loop (i = fps.length) has no frameRate.
StreamConstraints(i) ==
  IF i < Len(StreamFps)
  THEN [audio |-> FALSE,
        video |-> [facingMode |-> "user",
                   width |-> [ideal |-> StreamIdealWidth],
                   height |-> [ideal |-> StreamIdealHeight],
                   frameRate |-> [min |-> At(StreamFps, i)]]]
  ELSE [audio |-> FALSE,
        video |-> [facingMode |-> "user",
                   width |-> [ideal |-> StreamIdealWidth],
                   height |-> [ideal |-> StreamIdealHeight]]]

\* Cameras: what the stream of each delivers.
Devices ==
  {[frameRate |-> f, width |-> r[1], height |-> r[2]] :
     f \in {15, 24, 30, 60}, r \in {<<640, 480>>, <<4096, 2048>>}}

\* How the promise of getUserMedia(constraints) may settle: with the
\* camera's stream if the camera meets the required frame rate, or with a
\* rejection of any name (one name is none of MediaStreamErrorEnum).
GetUserMediaOutcomes(constraints) ==
  (IF "frameRate" \in DOMAIN constraints.video
      /\ constraints.video.frameRate.min > device.frameRate
   THEN {}
   ELSE {[resolved |-> device]})
  \cup {[rejected |-> name] : name \in MEDIA_STREAM_ERROR_NAMES \cup {"InvalidStateError"}}

\* GetStreamWithConstraints after its await: the result, or the exception
\* it throws again.
GetStreamWithConstraints(outcome) ==
  IF "resolved" \in DOMAIN outcome THEN [stream |-> outcome.resolved]
  ELSE IF outcome.rejected \in MEDIA_STREAM_ERROR_NAMES THEN [error |-> outcome.rejected]
  ELSE [thrown |-> outcome.rejected]

\* Mutant: the loop goes on after any error.
MaxFpsLoopContinues_OnAnyError(i, res) ==
  i < Len(StreamFps) /\ "error" \in DOMAIN res

\* The loop of CreateMaxFpsMaxResStream goes on after the result res of
\* index i (res.error is undefined for a result with a stream).
MaxFpsLoopContinues(i, res) ==
  /\ i < Len(StreamFps)
  /\ "error" \in DOMAIN res
  /\ res.error = MediaStreamErrorEnum.OVERCONSTRAINTED_ERROR

\* No stream has been asked for.
StreamOff ==
  /\ device = Null
  /\ streamPc = "off"
  /\ gumCalls = <<>>
  /\ gumOutcomes = <<>>
  /\ streamResult = Null

\* CreateMaxFpsMaxResStream up to its first await.
CreateMaxFpsMaxResStream ==
  /\ streamPc = "called"
  /\ streamPc' = "awaiting"
  /\ gumCalls' = <<StreamConstraints(0)>>
  /\ UNCHANGED <<device, gumOutcomes, streamResult>>
  /\ UNCHANGED <<engineVars, progressVars, calcVars, glueVars, canvasVars>>

\* The pending getUserMedia promise settles: GetStreamWithConstraints
\* returns or throws, and CreateMaxFpsMaxResStream goes on to its next
\* await or ends.
GetUserMediaSettles(outcome) ==
  /\ streamPc = "awaiting"
  /\ outcome \in GetUserMediaOutcomes(gumCalls[Len(gumCalls)])
  /\ gumOutcomes' = Append(gumOutcomes, outcome)
  /\ LET i == Len(gumCalls) - 1
         res == GetStreamWithConstraints(outcome)
     IN  IF "thrown" \in DOMAIN res
         THEN /\ streamPc' = "threw"
              /\ streamResult' = res
              /\ UNCHANGED gumCalls
         ELSE IF MaxFpsLoopContinues(i, res)
         THEN /\ streamPc' = "awaiting"
              /\ gumCalls' = Append(gumCalls, StreamConstraints(i + 1))
              /\ UNCHANGED streamResult
         ELSE /\ streamPc' = "returned"
              /\ streamResult' = res
              /\ UNCHANGED gumCalls
  /\ UNCHANGED device
  /\ UNCHANGED <<engineVars, progressVars, calcVars, glueVars, canvasVars>>

\* ------------------------------------------------- util/config_helper
\* JavaScript values.  An object is a reference into a heap; the heap is a
\* sequence of objects, an object a function from its keys to values.
Undefined == [t |-> "undefined"]

JsNull == [t |-> "null"]

JsNaN == [t |-> "NaN"]

Num(n) == [t |-> "number", v |-> n]

Ref(a) == [t |-> "object", ref |-> a]

\* An object written out as a literal, with the trees of its fields.
Obj(f) == [t |-> "object", f |-> f]

IsNullish(v) == v.t = "null" \/ v.t = "undefined"

\* typeof v === 'object'.
IsObjectType(v) == v.t = "object" \/ v.t = "null"

RECURSIVE Alloc(_, _), AllocFields(_, _, _, _)
\* Builds the literal tree in heap h: the new heap and the value.
Alloc(h, tree) ==
  IF tree.t # "object" THEN [heap |-> h, value |-> tree]
  ELSE LET r == AllocFields(h, tree.f, DOMAIN tree.f, <<>>)
       IN  [heap |-> Append(r.heap, r.obj), value |-> Ref(Len(r.heap) + 1)]

AllocFields(h, f, keys, obj) ==
  IF keys = {} THEN [heap |-> h, obj |-> obj]
  ELSE LET k == CHOOSE x \in keys : TRUE
           r == Alloc(h, f[k])
       IN  AllocFields(r.heap, f, keys \ {k}, (k :> r.value) @@ obj)

\* JSON.stringify(v), as the tree the text stands for: a field whose value
\* is undefined is left out, NaN is written as null; the result for
\* undefined is undefined, not a text.
RECURSIVE JSONStringify(_, _)
JSONStringify(h, v) ==
  CASE v.t = "undefined" -> Undefined
    [] v.t = "NaN" -> JsNull
    [] v.t = "object" ->
         Obj([k \in {x \in DOMAIN h[v.ref] : h[v.ref][x].t # "undefined"} |->
                JSONStringify(h, h[v.ref][k])])
    [] OTHER -> v

\* The exception of JSON.parse(undefined).
JsonSyntaxError == [thrown |-> "SyntaxError"]

\* JSON.parse(text): fresh objects in heap h.
JSONParse(h, text) ==
  IF text = Undefined THEN JsonSyntaxError ELSE Alloc(h, text)

RECURSIVE ApplyConfigDefaultsInternal_(_, _, _), ApplyConfigDefaultsKeys_(_, _, _, _)
\* ApplyConfigDefaultsInternal_: the heap after the call.
ApplyConfigDefaultsInternal_(h, src, trg) ==
  IF IsNullish(src) \/ IsNullish(trg) THEN h
  ELSE IF ~IsObjectType(src) \/ ~IsObjectType(trg) THEN h
  ELSE ApplyConfigDefaultsKeys_(h, src, trg, DOMAIN h[src.ref])

\* Its loop over the keys of src that are left.
ApplyConfigDefaultsKeys_(h, src, trg, keys) ==
  IF keys = {} THEN h
  ELSE LET key == CHOOSE x \in keys : TRUE
           h2 == IF key \in DOMAIN h[trg.ref]
                 THEN ApplyConfigDefaultsInternal_(h, h[src.ref][key], h[trg.ref][key])
                 ELSE IF key # ""
                 THEN [h EXCEPT ![trg.ref] = (key :> h[src.ref][key]) @@ h[trg.ref]]
                 ELSE h
       IN  ApplyConfigDefaultsKeys_(h2, src, trg, keys \ {key})

\* ApplyConfigDefaults of util/config_helper.ts in heap h: the heap after
\* the call and the value it returns, or the exception it throws.
ConfigHelperApplyConfigDefaults(h, src, trg) ==
  IF IsNullish(trg)
  THEN IF IsNullish(src) THEN [heap |-> h, value |-> src]
       ELSE JSONParse(h, JSONStringify(h, src))
  ELSE LET srcCopy == JSONParse(h, JSONStringify(h, src))
       IN  IF "thrown" \in DOMAIN srcCopy THEN srcCopy
           ELSE LET trgCopy == JSONParse(srcCopy.heap, JSONStringify(h, trg))
                IN  [heap |-> ApplyConfigDefaultsInternal_(trgCopy.heap, srcCopy.value, trgCopy.value),
                     value |-> trgCopy.value]

\* Values a config field may hold, and configs of up to two levels.
ConfigLeaves == {Num(1), Num(2), JsNaN, Undefined, JsNull}

InnerConfigs == {Obj(<<>>), Obj("a" :> Num(1)), Obj("b" :> Num(2))}

ConfigTrees ==
  {Undefined, JsNull, Num(1)}
  \cup {Obj(f) : f \in UNION {[K -> ConfigLeaves \cup InnerConfigs] :
                                K \in {{}, {"a"}, {"a", "b"}, {""}}}}

\* The call ApplyConfigDefaults(src, trg) on two literals, and on one
\* object passed twice.
ConfigHelperCalls ==
  {LET s == Alloc(<<>>, src)
       t == Alloc(s.heap, trg)
   IN  [fn |-> "ApplyConfigDefaults", heap |-> t.heap, src |-> s.value, trg |-> t.value] :
     src \in ConfigTrees, trg \in ConfigTrees}
  \cup
  {LET s == Alloc(<<>>, src)
   IN  [fn |-> "ApplyConfigDefaults", heap |-> s.heap, src |-> s.value, trg |-> s.value] :
     src \in ConfigTrees}

CallConfigHelperApplyConfigDefaults ==
  /\ Called("ApplyConfigDefaults")
  /\ Return(ConfigHelperApplyConfigDefaults(calcIn.heap, calcIn.src, calcIn.trg))

\* No helper of util/ is in use.
\* ------------------------------------------- util/stream_helper: scaling
\* Numbers that the divisions of the scaling functions yield from whole
\* widths and heights: fractions n / d in lowest terms with d > 0 (the
\* rounding of the two double divisions is left out).
RECURSIVE Gcd(_, _)
Gcd(a, b) == IF b = 0 THEN a ELSE Gcd(b, a % b)

Frac(n, d) ==
  LET g == Gcd(Abs(n), Abs(d))
      sgn == IF d < 0 THEN 0 - 1 ELSE 1
  IN  [n |-> (sgn * n) \div g, d |-> (sgn * d) \div g]

Whole(n) == [n |-> n, d |-> 1]

FracDiv(a, b) == Frac(a.n * b.d, a.d * b.n)

FracSub(a, b) == Frac(a.n * b.d - b.n * a.d, a.d * b.d)

FracLeq(a, b) == a.n * b.d <= b.n * a.d

ScaleResolutionToWidth(resolution, width) ==
  LET cw == resolution.width
      ch == resolution.height
      tw == width
  IN  [width |-> tw, height |-> FracDiv(ch, FracDiv(cw, tw))]

ScaleResolutionToHeight(resolution, height) ==
  LET cw == resolution.width
      ch == resolution.height
      th == height
  IN  [width |-> FracDiv(cw, FracDiv(ch, th)), height |-> th]

ScaleResolutionDown(resolution, upperResolutionLimit) ==
  LET res == resolution
      uRes == upperResolutionLimit
  IN  IF FracLeq(res.width, uRes.width) /\ FracLeq(res.height, uRes.height)
      THEN res
      ELSE IF ~FracLeq(FracSub(res.width, uRes.width), FracSub(res.height, uRes.height))
           THEN ScaleResolutionToWidth(res, uRes.width)
           ELSE ScaleResolutionToHeight(res, uRes.height)

\* Resolutions of whole positive widths and heights.
Resolutions == {[width |-> Whole(w), height |-> Whole(h)] : w \in 1..MaxSide, h \in 1..MaxSide}

ScaleCalls ==
  {[fn |-> "ScaleResolutionDown", resolution |-> r, upperResolutionLimit |-> u] :
     r \in Resolutions, u \in Resolutions}
  \cup {[fn |-> f, resolution |-> r, target |-> Whole(t)] :
          f \in {"ScaleResolutionToWidth", "ScaleResolutionToHeight"},
          r \in Resolutions, t \in 1..MaxSide}

CallScaleResolutionDown ==
  /\ Called("ScaleResolutionDown")
  /\ Return(ScaleResolutionDown(calcIn.resolution, calcIn.upperResolutionLimit))

CallScaleResolutionToWidth ==
  /\ Called("ScaleResolutionToWidth")
  /\ Return(ScaleResolutionToWidth(calcIn.resolution, calcIn.target))

CallScaleResolutionToHeight ==
  /\ Called("ScaleResolutionToHeight")
  /\ Return(ScaleResolutionToHeight(calcIn.resolution, calcIn.target))

\* -------------------------------------------------- util/engine_helper
\* The CreateEngine calls of the page.
Callers == 1..NumCallers

\* The API object that the k-th call of Load resolves with, and an engine
\* that its CreateEngine returns.
LoadedApi(k) == [loaded |-> k]

ApiCreateEngine(api) == [engineOf |-> api]

GlueOff ==
  /\ API = Null
  /\ loadCalls = 0
  /\ cePc = [c \in Callers |-> "idle"]
  /\ ceLoad = [c \in Callers |-> 0]
  /\ ceEngine = [c \in Callers |-> Null]

\* CreateEngine up to its return or its await: with an API cached it
\* returns an engine of it, otherwise it calls Load and waits.
CreateEngine(c) ==
  /\ cePc[c] = "idle"
  /\ IF API # Null
     THEN /\ cePc' = [cePc EXCEPT ![c] = "resolved"]
          /\ ceEngine' = [ceEngine EXCEPT ![c] = ApiCreateEngine(API)]
          /\ UNCHANGED <<API, loadCalls, ceLoad>>
     ELSE /\ loadCalls' = loadCalls + 1
          /\ cePc' = [cePc EXCEPT ![c] = "awaitLoad"]
          /\ ceLoad' = [ceLoad EXCEPT ![c] = loadCalls + 1]
          /\ UNCHANGED <<API, ceEngine>>
  /\ UNCHANGED <<engineVars, progressVars, calcVars, streamVars, canvasVars>>

\* The Load promise of call c resolves: the call stores the API and calls
\* CreateEngine again, which finds the API it has just stored.
LoadResolves(c) ==
  /\ cePc[c] = "awaitLoad"
  /\ API' = LoadedApi(ceLoad[c])
  /\ cePc' = [cePc EXCEPT ![c] = "resolved"]
  /\ ceEngine' = [ceEngine EXCEPT ![c] = ApiCreateEngine(API')]
  /\ UNCHANGED <<loadCalls, ceLoad>>
  /\ UNCHANGED <<engineVars, progressVars, calcVars, streamVars, canvasVars>>

\* ------------------------------------------ canvas based preprocessing
FracAdd(a, b) == Frac(a.n * b.d + b.n * a.d, a.d * b.d)

FracMul(a, b) == Frac(a.n * b.n, a.d * b.d)

FracNeg(a) == [n |-> 0 - a.n, d |-> a.d]

FracLt(a, b) == a.n * b.d < b.n * a.d

FracFloor(a) == a.n \div a.d

FracAbs(a) == [n |-> Abs(a.n), d |-> a.d]

\* The arguments of Init: a frame of originalWidth_ x originalHeight_
\* pixels is drawn to a canvas of resizeWidth_ x resizeHeight_ pixels.
originalWidth_ == 2

originalHeight_ == 2

resizeWidth_ == 4

resizeHeight_ == 4

\* The pixels of the canvas and of the frame, by column and row; a pixel of
\* the canvas holds 0 when it is transparent, and else the value of the
\* pixel of the frame that was drawn to it.
CanvasPixels == (0..(resizeWidth_ - 1)) \X (0..(resizeHeight_ - 1))

Transparent == 0

TrackSourceImage == [x \in 0..(originalWidth_ - 1), y \in 0..(originalHeight_ - 1) |-> 1 + x + originalWidth_ * y]

\* Transforms of the 2d context: x' = a x + c y + e, y' = b x + d y + f.
IdentityM ==
  [a |-> Whole(1), b |-> Whole(0), c |-> Whole(0), d |-> Whole(1), e |-> Whole(0), f |-> Whole(0)]

ScaleM(sx, sy) ==
  [a |-> sx, b |-> Whole(0), c |-> Whole(0), d |-> sy, e |-> Whole(0), f |-> Whole(0)]

TranslateM(tx, ty) ==
  [a |-> Whole(1), b |-> Whole(0), c |-> Whole(0), d |-> Whole(1), e |-> tx, f |-> ty]

\* Rotation by q quarter turns, clockwise on the canvas.
RotateM(q) ==
  LET cos == Frac(CosQ(q), U)
      sin == Frac(SinQ(q), U)
  IN  [a |-> cos, b |-> sin, c |-> FracNeg(sin), d |-> cos, e |-> Whole(0), f |-> Whole(0)]

\* The transform that applies n and then m.
MatMul(m, n) ==
  [a |-> FracAdd(FracMul(m.a, n.a), FracMul(m.c, n.b)),
   b |-> FracAdd(FracMul(m.b, n.a), FracMul(m.d, n.b)),
   c |-> FracAdd(FracMul(m.a, n.c), FracMul(m.c, n.d)),
   d |-> FracAdd(FracMul(m.b, n.c), FracMul(m.d, n.d)),
   e |-> FracAdd(FracAdd(FracMul(m.a, n.e), FracMul(m.c, n.f)), m.e),
   f |-> FracAdd(FracAdd(FracMul(m.b, n.e), FracMul(m.d, n.f)), m.f)]

\* The point the transform m maps to the centre of the canvas pixel p.
UserPoint(m, p) ==
  LET px == FracSub(Frac(2 * p[1] + 1, 2), m.e)
      py == FracSub(Frac(2 * p[2] + 1, 2), m.f)
      det == FracSub(FracMul(m.a, m.d), FracMul(m.b, m.c))
  IN  <<FracDiv(FracSub(FracMul(m.d, px), FracMul(m.c, py)), det),
        FracDiv(FracSub(FracMul(m.a, py), FracMul(m.b, px)), det)>>

InRect(u, x, y, w, h) ==
  /\ FracLeq(x, u[1]) /\ FracLt(u[1], FracAdd(x, w))
  /\ FracLeq(y, u[2]) /\ FracLt(u[2], FracAdd(y, h))

\* The methods of the 2d context, on a canvas cv.  A pixel is cleared or
\* painted when its centre is in the rectangle.
CtxSetTransform(cv, m) == [cv EXCEPT !.transform = m]

CtxScale(cv, sx, sy) == [cv EXCEPT !.transform = MatMul(@, ScaleM(sx, sy))]

CtxTranslate(cv, tx, ty) == [cv EXCEPT !.transform = MatMul(@, TranslateM(tx, ty))]

CtxRotate(cv, q) == [cv EXCEPT !.transform = MatMul(@, RotateM(q))]

CtxClearRect(cv, x, y, w, h) ==
  [cv EXCEPT !.pixels =
     [p \in CanvasPixels |->
        IF InRect(UserPoint(cv.transform, p), x, y, w, h) THEN Transparent ELSE cv.pixels[p]]]

\* drawImage of the whole frame to the rectangle of the frame's size at
\* (dx, dy): source over what the canvas holds.
CtxDrawImage(cv, image, dx, dy, dWidth, dHeight) ==
  [cv EXCEPT !.pixels =
     [p \in CanvasPixels |->
        LET u == UserPoint(cv.transform, p)
        IN  IF InRect(u, dx, dy, dWidth, dHeight)
            THEN image[FracFloor(FracSub(u[1], dx)), FracFloor(FracSub(u[2], dy))]
            ELSE cv.pixels[p]]]

\* Mutant: the transform is reset and the pixels are left as they are.
Reset__KeepsPixels(cv) == CtxSetTransform(cv, IdentityM)

Reset_(cv) ==
  CtxClearRect(CtxSetTransform(cv, IdentityM),
               Whole(0), Whole(0), Whole(resizeWidth_), Whole(resizeHeight_))

ProcessInternal_(cv, image, info) ==
  LET topLeft == info.topLeft
      bottomRight == info.bottomRight
      rotationCenter == info.rotationCenter
      boxWidth == FracAdd(FracMul(FracSub(bottomRight[1], topLeft[1]), Whole(originalWidth_)), Whole(1))
      boxHeight == FracAdd(FracMul(FracSub(bottomRight[2], topLeft[2]), Whole(originalHeight_)), Whole(1))
      scaleX == FracDiv(Whole(resizeWidth_), boxWidth)
      scaleY == FracDiv(Whole(resizeHeight_), boxHeight)
      offset == <<FracMul(topLeft[1], Whole(originalWidth_)), FracMul(topLeft[2], Whole(originalHeight_))>>
      d == <<FracMul(rotationCenter[1], Whole(originalWidth_)),
             FracMul(rotationCenter[2], Whole(originalHeight_))>>
      c0 == Reset_(cv)
      c1 == CtxScale(c0, scaleX, scaleY)
      c2 == CtxTranslate(c1, FracNeg(offset[1]), FracNeg(offset[2]))
      c3 == CtxTranslate(c2, d[1], d[2])
      c4 == CtxRotate(c3, info.rotationInRadians)
      c5 == CtxTranslate(c4, FracNeg(d[1]), FracNeg(d[2]))
      c6 == IF info.flip THEN CtxScale(c5, Whole(0 - 1), Whole(1)) ELSE c5
      dWidth == Whole(originalWidth_)
      dHeight == Whole(originalHeight_)
      dx == IF info.flip THEN FracNeg(dWidth) ELSE Whole(0)
  IN  CtxDrawImage(c6, image, dx, Whole(0), dWidth, dHeight)

\* The box of a crop window in pixels of the frame.
PadWidth(t) == FracMul(Whole(originalWidth_), FracSub(t.bottomRight[1], t.topLeft[1]))

PadHeight(t) == FracMul(Whole(originalHeight_), FracSub(t.bottomRight[2], t.topLeft[2]))

\* The copy of the crop window that padding mode makes square.
SquareBox(info) ==
  LET t == info
      width == PadWidth(t)
      height == PadHeight(t)
      globalPad == FracAbs(FracSub(width, height))
      half == FracDiv(globalPad, Whole(2))
  IN  IF FracLt(height, width)
      THEN [t EXCEPT !.topLeft[2] = FracSub(@, FracDiv(half, Whole(originalHeight_))),
                     !.bottomRight[2] = FracAdd(@, FracDiv(half, Whole(originalHeight_)))]
      ELSE IF FracLt(width, height)
      THEN [t EXCEPT !.topLeft[1] = FracSub(@, FracDiv(half, Whole(originalWidth_))),
                     !.bottomRight[1] = FracAdd(@, FracDiv(half, Whole(originalWidth_)))]
      ELSE t

\* What padding mode does after the frame is drawn: the bands that the
\* squaring added hold the padding value.
ClearPadding(cv, info) ==
  LET width == PadWidth(info)
      height == PadHeight(info)
      ctx == CtxSetTransform(cv, IdentityM)
      rw == Whole(resizeWidth_)
      rh == Whole(resizeHeight_)
  IN  IF FracLt(height, width)
      THEN LET boxPad == FracSub(Whole(1), FracDiv(height, width))
               band == FracMul(FracDiv(boxPad, Whole(2)), rh)
           IN  CtxClearRect(CtxClearRect(ctx, Whole(0), Whole(0), rw, band),
                            Whole(0), FracSub(rh, FracDiv(FracMul(rh, boxPad), Whole(2))), rw, band)
      ELSE IF FracLt(width, height)
      THEN LET boxPad == FracSub(Whole(1), FracDiv(width, height))
               band == FracMul(FracDiv(boxPad, Whole(2)), rw)
           IN  CtxClearRect(CtxClearRect(ctx, Whole(0), Whole(0), band, rh),
                            FracSub(rw, FracDiv(FracMul(rw, boxPad), Whole(2))), Whole(0), band, rh)
      ELSE ctx

\* The canvas after Preprocess(src, info) on the canvas cv.
PreprocessOn(pad, cv, image, info) ==
  IF ~pad
  THEN ProcessInternal_(cv, image, info)
  ELSE ClearPadding(ProcessInternal_(cv, image, SquareBox(info)), info)

\* Crop windows of the frame: a box of whole pixels, turned by quarter
\* turns about its centre, mirrored or not.
CropBoxes ==
  {<<<<Frac(x0, originalWidth_), Frac(y0, originalHeight_)>>,
     <<Frac(x1, originalWidth_), Frac(y1, originalHeight_)>>>> :
     x0 \in {0, 1}, y0 \in {0}, x1 \in {1, 2}, y1 \in {1, 2}}

CanvasPreprocInfos ==
  {[topLeft |-> b[1],
    bottomRight |-> b[2],
    rotationCenter |-> <<FracDiv(FracAdd(b[1][1], b[2][1]), Whole(2)),
                         FracDiv(FracAdd(b[1][2], b[2][2]), Whole(2))>>,
    rotationInRadians |-> q,
    flip |-> fl] : b \in {c \in CropBoxes : FracLt(c[1][1], c[2][1])}, q \in {0, 1, 2, 0 - 1}, fl \in BOOLEAN}

\* The canvas Init creates.
NewCanvas == [transform |-> IdentityM, pixels |-> [p \in CanvasPixels |-> Transparent]]

CanvasOff ==
  /\ pad_ = FALSE
  /\ canvas_ = Null
  /\ canvasBefore = Null
  /\ lastPreprocInfo = Null
  /\ preprocessCalls = 0

CanvasInit ==
  /\ pad_ \in BOOLEAN
  /\ canvas_ = NewCanvas
  /\ canvasBefore = Null
  /\ lastPreprocInfo = Null
  /\ preprocessCalls = 0

Preprocess(info) ==
  /\ canvas_ # Null
  /\ preprocessCalls < MaxPreprocess
  /\ canvas_' = PreprocessOn(pad_, canvas_, TrackSourceImage, info)
  /\ canvasBefore' = canvas_
  /\ lastPreprocInfo' = info
  /\ preprocessCalls' = preprocessCalls + 1
  /\ UNCHANGED pad_
  /\ UNCHANGED <<engineVars, progressVars, calcVars, streamVars, glueVars>>

UtilOff == StreamOff /\ GlueOff /\ CanvasOff

\* --------------------------------------------------------- specifications
\* The engine has not been started.
EngineIdle == EngineInit({Null}) /\ entryPoint = "StartTfjsEngine" /\ lanDims = <<1, 1>>

\* No download is under way.
ProgressOff ==
  /\ ProgressIdle
  /\ dlPc = [d \in Downloads |-> "caller"]
  /\ dlSize = [d \in Downloads |-> 0]
  /\ dlBody = [d \in Downloads |-> 0]

Init == EngineInit(RunConfigs) /\ ProgressOff /\ CalcOff /\ UtilOff

Next == EngineStep \/ RequestStop

Spec == Init /\ [][Next]_vars

\* Every config a caller can pass: each field absent or one of two values.
ConfigValue(k, choice) ==
  CASE k = "mirrorX" -> choice = 1
    [] k = "padding" -> (choice - 1) * (U \div 10)
    [] k = "minHandPresenceProbabilityThreshold" -> (choice - 1) * ((4 * U) \div 5)
    [] k = "__userFriendlyCoordinateOrder" -> choice = 1
    [] k = "__boxSlack" -> (choice - 1) * (U \div 2)

AllConfigs ==
  {Null} \cup
  {[k \in {x \in ConfigKeys : ch[x] # 0} |-> ConfigValue(k, ch[k])] : ch \in [ConfigKeys -> 0..2]}

\* The start of the engine with any config.
ConfigInit == EngineInit(AllConfigs) /\ ProgressOff /\ CalcOff /\ UtilOff

ConfigNext == StartTfjsEngine \/ StartWebGlEngine

ConfigSpec == ConfigInit /\ [][ConfigNext]_vars

\* The loop alone: StartTfjsEngine with two models of one input size, and a
\* caller that does not ask for a stop.
LoopInit ==
  /\ EngineInit(RunConfigs) /\ ProgressOff /\ CalcOff /\ UtilOff
  /\ entryPoint = "StartTfjsEngine"
  /\ lanDims = boxDims

LoopNext ==
  \/ StartTfjsEngine
  \/ RafBoxDone
  \/ PreprocBoxDone
  \/ \E res \in BoxOutputs : BoxCbDone(res)
  \/ RafLanDone
  \/ PreprocLanDone
  \/ \E res \in LanOutputs : LanCbDone(res)

LoopSpec == LoopInit /\ [][LoopNext]_vars

\* Simultaneous downloads that report to one aggregator.
ProgressSpecInit == EngineIdle /\ ProgressInit /\ CalcOff /\ UtilOff

ProgressNext ==
  \/ \E d \in Downloads : DownloadBlobsStart(d)
  \/ \E d \in Downloads : \E numRec \in 1..MaxBytes : DownloadBlobsChunk(d, numRec)
  \/ \E d \in Downloads : \E r \in 0..MaxBytes : \E t \in 0..MaxBytes : CallerProgress(d, r, t)

ProgressSpec == ProgressSpecInit /\ [][ProgressNext]_vars

\* The crop window computed from one model output.
CropInit == EngineIdle /\ ProgressOff /\ calcIn \in CropCalls /\ calcOut = Null /\ UtilOff

CropNext == CallComputePreprocInfoFromBoxCoords \/ CallComputePreprocInfoFromLanCoords

CropSpec == CropInit /\ [][CropNext]_vars

\* One call of a post processing function of post_model.
PostInit == EngineIdle /\ ProgressOff /\ calcIn \in PostCalls /\ calcOut = Null /\ UtilOff

PostNext ==
  \/ CallAssembleTrackResultFromCoordinatesAndClasses
  \/ CallMakeCoordinateOrderUserFriendly
  \/ CallApplyPaddingToCoordinates

PostSpec == PostInit /\ [][PostNext]_vars

\* Coordinates taken into a crop window (or through a rotation) and back.
TransformInit ==
  /\ EngineIdle /\ ProgressOff /\ UtilOff
  /\ calcIn \in TransformCalls /\ calcOut = [results |-> <<>>]

TransformNext ==
  \/ CallCoordsOutsideBox
  \/ CallCoordsInsideBox
  \/ CallApply
  \/ CallApplyReverse
  \/ CallConvertLandmarkCoordinatesToGlobalCoordinates

TransformSpec == TransformInit /\ [][TransformNext]_vars

\* One call of an elementwise vector operation.
VectorInit == EngineIdle /\ ProgressOff /\ calcIn \in VectorCalls /\ calcOut = Null /\ UtilOff

VectorNext ==
  \/ CallAddVectors
  \/ CallSubtractVectors
  \/ CallMultiplyVectors
  \/ CallDivideVectors

VectorSpec == VectorInit /\ [][VectorNext]_vars

ConfigHelperInit ==
  EngineIdle /\ ProgressOff /\ calcIn \in ConfigHelperCalls /\ calcOut = Null /\ UtilOff

ConfigHelperNext == CallConfigHelperApplyConfigDefaults

ConfigHelperSpec == ConfigHelperInit /\ [][ConfigHelperNext]_vars

\* One call of a scaling function of util/stream_helper.
ScaleInit == EngineIdle /\ ProgressOff /\ calcIn \in ScaleCalls /\ calcOut = Null /\ UtilOff

ScaleNext ==
  \/ CallScaleResolutionDown
  \/ CallScaleResolutionToWidth
  \/ CallScaleResolutionToHeight

ScaleSpec == ScaleInit /\ [][ScaleNext]_vars

\* CreateEngine calls of util/engine_helper, started at any time; every
\* Load promise resolves at some time.
GlueInit == EngineIdle /\ ProgressOff /\ CalcOff /\ UtilOff

GlueNext ==
  \/ \E c \in Callers : CreateEngine(c)
  \/ \E c \in Callers : LoadResolves(c)

GlueSpec == GlueInit /\ [][GlueNext]_vars /\ \A c \in Callers : WF_vars(LoadResolves(c))

\* Preprocess calls on the canvas of one CanvasBasedPreprocessing object.
CanvasSpecInit == EngineIdle /\ ProgressOff /\ CalcOff /\ StreamOff /\ GlueOff /\ CanvasInit

CanvasNext == \E info \in CanvasPreprocInfos : Preprocess(info)

CanvasSpec == CanvasSpecInit /\ [][CanvasNext]_vars

\* CreateMaxFpsMaxResStream is called once, with some camera attached.
StreamInit ==
  /\ EngineIdle /\ ProgressOff /\ CalcOff /\ GlueOff /\ CanvasOff
  /\ device \in Devices
  /\ streamPc = "called"
  /\ gumCalls = <<>>
  /\ gumOutcomes = <<>>
  /\ streamResult = Null

StreamNext ==
  \/ CreateMaxFpsMaxResStream
  \/ \E name \in MEDIA_STREAM_ERROR_NAMES \cup {"InvalidStateError"} :
       GetUserMediaSettles([rejected |-> name])
  \/ GetUserMediaSettles([resolved |-> device])

\* The function runs on when it can, and every getUserMedia promise settles.
StreamSpec == StreamInit /\ [][StreamNext]_vars /\ WF_vars(StreamNext)

\* ------------------------------------------------------------- properties
\* C1: the promise returned by StartEngine resolves with the stop callback
\* while the loop is running: a run in which every animation frame and every
\* callback has completed, up to the last observed tick, has resolved it.
C1_PromiseResolves == (Len(results) = MaxTicks) => promise = "resolved"

\* What the code does instead: the promise is never resolved, and the flag
\* is never set.
C1_NeverResolved == promise # "resolved" /\ ~stopped /\ pc # "returned"

\* C2: once the caller has asked for a stop, the tick that is under way is
\* the last one: when it ends the loop exits, and nothing is called again.
C2_StopEndsLoop ==
  [][(stopRequested /\ pc = "lanCb" /\ pc' # "lanCb") => pc' = "returned"]_vars

\* C3: the first model callback is boxCb, never lanCb, and every boxCb call
\* gets the canvas that preprocCb has just drawn with the full-frame
\* descriptor (topLeft [0,0], bottomRight [1,1], rotationCenter [0.5,0.5],
\* rotation 0, no flip).
C3_BoxFirstWithIdentity ==
  LET identity == [topLeft |-> <<0, 0>>, bottomRight |-> <<U, U>>, flip |-> FALSE,
                   rotationCenter |-> <<U \div 2, U \div 2>>, rotationInRadians |-> 0]
      IsCall(i, ev) == log[i].ph = "call" /\ log[i].ev = ev
  IN  /\ \A i \in DOMAIN log :
           IsCall(i, "lanCb") => \E j \in 1..(i - 1) : IsCall(j, "boxCb")
      /\ \A i \in DOMAIN log :
           IsCall(i, "boxCb") =>
             /\ log[i].info = identity
             /\ i > 2
             /\ log[i - 2] = Call("preprocCb", identity)
             /\ log[i - 1] = Ret("preprocCb")
      /\ pc = "boxCb" => modelInput = identity

\* C3 witness: the box model has been invoked a second time.
C3_Witness ==
  Cardinality({i \in DOMAIN log : log[i].ph = "call" /\ log[i].ev = "boxCb"}) >= 2

\* C4: after a result whose isHandPresentProb is below the threshold the
\* loop is seeking again: it holds no crop window, boxCb is called before
\* the next lanCb, and that lanCb gets the crop derived from the new box
\* output.
C4_PresenceLossSeeks ==
  LET n == Len(log)
      lost == /\ Len(results) > 0
              /\ results[Len(results)].isHandPresentProb
                   < config["minHandPresenceProbabilityThreshold"]
      lastRes == CHOOSE i \in DOMAIN log :
                   /\ log[i].ev = "resCb"
                   /\ \A j \in DOMAIN log : log[j].ev = "resCb" => j <= i
  IN  /\ (lost /\ n > 0 /\ log[n] = Call("raf", Null) /\ log[n - 1] = Ret("resCb"))
           => (pc = "rafBox" /\ preprocInfo = Null)
      /\ (lost /\ pc = "lanCb")
           => /\ \E j \in (lastRes + 1)..n : log[j].ph = "call" /\ log[j].ev = "boxCb"
              /\ modelInput = ComputePreprocInfoFromBoxCoords(
                                boxRes.coordinates, trackSource, config["__boxSlack"])
              /\ log[n] = Call("lanCb", modelInput)

\* C4 witness: lanCb is running in the tick after a result without a hand.
C4_Witness ==
  /\ pc = "lanCb"
  /\ Len(results) > 0
  /\ results[Len(results)].isHandPresentProb < config["minHandPresenceProbabilityThreshold"]

\* C5: resCb has been called exactly once per completed lanCb call, right
\* after it and with the result assembled from its output, also when the
\* hand is absent; a boxCb completion alone calls nothing.
C5_OneResultPerLandmarkCall ==
  LET Count(ev, ph) == Cardinality({i \in DOMAIN log : log[i].ev = ev /\ log[i].ph = ph})
      lastLan == CHOOSE i \in DOMAIN log :
                   /\ log[i].ev = "lanCb" /\ log[i].ph = "call"
                   /\ \A j \in DOMAIN log : log[j].ev = "lanCb" => j <= i + 1
  IN  /\ Count("resCb", "call") = Count("lanCb", "ret")
      /\ Len(results) = Count("resCb", "call")
      /\ \A i \in DOMAIN log :
           (log[i].ev = "resCb" /\ log[i].ph = "call") => (i > 1 /\ log[i - 1] = Ret("lanCb"))
      /\ \A i \in DOMAIN log :
           log[i] = Ret("lanCb") => (i < Len(log) /\ log[i + 1] = Call("resCb", Null))
      /\ (lanRes # Null /\ pc # "lanCb")
           => results[Len(results)] = TickResult(log[lastLan].info, lanRes)

\* C5 witness: two results were delivered, one of them without a hand.
C5_Witness ==
  /\ Len(results) >= 2
  /\ \E k \in DOMAIN results :
       results[k].isHandPresentProb < config["minHandPresenceProbabilityThreshold"]

\* C6: with different input dimensions of the two models the start fails
\* before the loop: StartEngine is not entered, no callback is invoked, and
\* the caller's promise is rejected, never resolved.
C6_DimensionMismatchIsFatal ==
  (boxDims[1] # lanDims[1] \/ boxDims[2] # lanDims[2]) =>
    /\ log = <<>>
    /\ results = <<>>
    /\ config = callerConfig
    /\ pc \in {"loading", "failed"}
    /\ pc = "failed" => promise = "rejected"
    /\ promise # "resolved"

\* C6 witness: the start has failed on models of different dimensions.
C6_Witness == pc = "failed" /\ lanDims # boxDims /\ promise = "rejected"

\* C7: ComputePreprocInfoFromBoxCoords throws unless there are exactly 6
\* coordinates, and in the loop that is fatal: the return of boxCb is the
\* last event, the promise is rejected.
C7_WrongBoxLengthIsFatal ==
  /\ \A b \in BoxOutputs :
       Len(b.coordinates) # 6 =>
         ComputePreprocInfoFromBoxCoords(b.coordinates, trackSource, (3 * U) \div 4)
           = WrongNumCoords
  /\ (boxRes # Null /\ Len(boxRes.coordinates) # 6) =>
       /\ pc = "failed"
       /\ promise = "rejected"
       /\ log[Len(log)] = Ret("boxCb")
       /\ Cardinality({i \in DOMAIN log : log[i].ev = "lanCb"}) = 2 * Len(results)

\* C7 witness: a box output of 7 points has ended a run that had already
\* delivered a result.
C7_Witness ==
  /\ pc = "failed"
  /\ boxRes # Null
  /\ Len(boxRes.coordinates) = 7
  /\ Len(results) >= 1

\* C8: the config StartEngine works with has every field of DEFAULT_CONFIG;
\* a field the caller supplied keeps the caller's value, also a falsy one,
\* and a field the caller left out has the default.
C8_ConfigMerge ==
  (pc \notin {"loading", "failed"}) =>
    /\ DOMAIN config = ConfigKeys
    /\ \A k \in ConfigKeys :
         config[k] = IF callerConfig # Null /\ k \in DOMAIN callerConfig
                     THEN callerConfig[k]
                     ELSE CASE k = "mirrorX" -> TRUE
                            [] k = "padding" -> 0
                            [] k = "minHandPresenceProbabilityThreshold" -> U \div 2
                            [] k = "__userFriendlyCoordinateOrder" -> TRUE
                            [] k = "__boxSlack" -> (3 * U) \div 4

\* C8 witness: the engine runs with the caller's {mirrorX: false, padding: 0}.
C8_Witness ==
  /\ pc = "rafBox"
  /\ callerConfig # Null
  /\ DOMAIN callerConfig = {"mirrorX", "padding"}
  /\ callerConfig["mirrorX"] = FALSE
  /\ callerConfig["padding"] = 0
  /\ config["mirrorX"] = FALSE
  /\ config["minHandPresenceProbabilityThreshold"] = U \div 2

C10_CombinedNeverDecreases ==
  [][(combinedArgs # Null /\ \A d \in Downloads :
                               reported'[d] # Null => reported'[d].nondecreasing)
       => (combinedArgs'[1] >= combinedArgs[1] /\ combinedArgs'[2] >= combinedArgs[2])]_vars

\* C10 witness: every download has reported more than once, never less than
\* before, and bytes have arrived.
C10_Witness ==
  /\ \A d \in Downloads :
       /\ reported[d] # Null
       /\ reported[d].nondecreasing
       /\ reported[d].newest[1] > reported[d].first[1]
  /\ combinedArgs # Null
  /\ combinedArgs[1] > 1

\* C11: the total handed to the combined progress callback is the same in
\* every invocation, when every download is one of DownloadBlobs (which
\* reports one total throughout).
C11_TotalIsConstant ==
  [][(combinedArgs # Null /\ \A d \in Downloads : dlPc'[d] # "caller")
       => combinedArgs'[2] = combinedArgs[2]]_vars

\* C12: while the newest report (r, t) of every download has 0 <= r <= t
\* and the t of its first report, the combined report has
\* 0 <= received <= total.
C12_ReceivedWithinTotal ==
  (/\ combinedArgs # Null
   /\ \A d \in Downloads :
        reported[d] # Null =>
          /\ 0 <= reported[d].newest[1]
          /\ reported[d].newest[1] <= reported[d].newest[2]
          /\ reported[d].newest[2] = reported[d].first[2])
    => (0 <= combinedArgs[1] /\ combinedArgs[1] <= combinedArgs[2])

\* C12 witness: every download is complete, one of them after several
\* reports, and the combined report says so.
C12_Witness ==
  /\ \A d \in Downloads :
       /\ reported[d] # Null
       /\ reported[d].newest[2] = reported[d].first[2]
       /\ reported[d].newest[1] = reported[d].newest[2]
       /\ reported[d].newest[1] > 0
  /\ \E d \in Downloads : reported[d].newest[1] # reported[d].first[1]
  /\ combinedArgs[1] = combinedArgs[2]

\* The four candidates coords[2..5] of the box call in calcIn, rotated as
\* the returned descriptor says.
RotatedCandidates ==
  AraApply(AspectRatioAwareRotation(calcOut.ret.rotationCenter, calcOut.ret.rotationInRadians, calcIn.ar),
           SubSeq(calcIn.coords, 3, 6))

\* The slack of the box call in calcIn, per axis, in relative units.
BoxSlackPerAxis ==
  LET px == MulFix(ComputeDistanceBetweenVectors(
                     <<calcIn.coords[1][1] * (calcIn.ar[1] - 1), calcIn.coords[1][2] * (calcIn.ar[2] - 1)>>,
                     <<calcIn.coords[2][1] * (calcIn.ar[1] - 1), calcIn.coords[2][2] * (calcIn.ar[2] - 1)>>),
                   calcIn.slack)
  IN  <<px \div calcIn.ar[1], px \div calcIn.ar[2]>>

BoxCallReturned ==
  calcIn # Null /\ calcOut # Null /\ calcIn.fn = "ComputePreprocInfoFromBoxCoords"

\* The input of the reacquisition scenario.
IsScenarioCall ==
  /\ calcIn.coords = << <<5000, 6000>>, <<5000, 4000>>, <<3000, 3000>>, <<7000, 3000>>,
                        <<3000, 7000>>, <<7000, 7000>> >>
  /\ calcIn.ar = <<100, 100>>
  /\ calcIn.slack = 7500

\* C13 as stated: the box of ComputePreprocInfoFromBoxCoords is the
\* axis-aligned bounding box of the rotated coords[2..5], widened by the
\* slack on every side; for the scenario input it is [0.3,0.3]-[0.7,0.7]
\* widened.
C13_BoxIsBoundingBox ==
  BoxCallReturned =>
    LET r == RotatedCandidates
        sl == BoxSlackPerAxis
        MinOf(S) == CHOOSE m \in S : \A x \in S : m <= x
        MaxOf(S) == CHOOSE m \in S : \A x \in S : m >= x
        xs == {r[k][1] : k \in 1..4}
        ys == {r[k][2] : k \in 1..4}
    IN  /\ calcOut.ret.topLeft = <<MinOf(xs) - sl[1], MinOf(ys) - sl[2]>>
        /\ calcOut.ret.bottomRight = <<MaxOf(xs) + sl[1], MaxOf(ys) + sl[2]>>
        /\ IsScenarioCall =>
             /\ calcOut.ret.rotationInRadians = 0
             /\ calcOut.ret.topLeft = <<3000 - 1485, 3000 - 1485>>
             /\ calcOut.ret.bottomRight = <<7000 + 1485, 7000 + 1485>>

\* C13 amended: the rotated coords[2..5] are read by position as the
\* points of least x, greatest x, least y and greatest y; the box is
\* [x of the first, y of the third]-[x of the second, y of the fourth],
\* widened by the slack on every side.  For the scenario input the rotation
\* is 0 and the box is [0.3,0.7]-[0.7,0.7] widened by 0.1485.
C13_BoxFromCandidatesByPosition ==
  BoxCallReturned =>
    LET r == RotatedCandidates
        sl == BoxSlackPerAxis
    IN  /\ calcOut.ret.topLeft = <<r[1][1] - sl[1], r[3][2] - sl[2]>>
        /\ calcOut.ret.bottomRight = <<r[2][1] + sl[1], r[4][2] + sl[2]>>
        /\ calcOut.ret.rotationCenter =
             <<(calcIn.coords[1][1] + calcIn.coords[2][1]) \div 2,
               (calcIn.coords[1][2] + calcIn.coords[2][2]) \div 2>>
        /\ calcOut.ret.flip = FALSE
        /\ IsScenarioCall =>
             /\ calcOut.ret.rotationInRadians = 0
             /\ calcOut.ret.topLeft = <<1515, 5515>>
             /\ calcOut.ret.bottomRight = <<8485, 8485>>

\* C13 witness: the scenario input has been processed.
C13_Witness == BoxCallReturned /\ IsScenarioCall

\* C14 as stated: every descriptor derived from a 6-point box output or
\* from a 21-point landmark output has bottomRight >= topLeft in each axis.
C14_CropIsWellFormed ==
  (calcIn # Null /\ calcOut # Null) =>
    /\ calcOut.ret.bottomRight[1] >= calcOut.ret.topLeft[1]
    /\ calcOut.ret.bottomRight[2] >= calcOut.ret.topLeft[2]

\* C14 amended: a descriptor derived from a 21-point landmark output has
\* bottomRight >= topLeft in each axis; one derived from a 6-point box
\* output has it when, after the rotation, coords[3] is not left of
\* coords[2] and coords[5] is not above coords[4].
C14_CropIsWellFormedForOrderedCandidates ==
  (calcIn # Null /\ calcOut # Null) =>
    LET ordered == /\ RotatedCandidates[2][1] >= RotatedCandidates[1][1]
                   /\ RotatedCandidates[4][2] >= RotatedCandidates[3][2]
    IN  (calcIn.fn = "ComputePreprocInfoFromLanCoords" \/ ordered) =>
          /\ calcOut.ret.bottomRight[1] >= calcOut.ret.topLeft[1]
          /\ calcOut.ret.bottomRight[2] >= calcOut.ret.topLeft[2]

\* C14 witness: a landmark output of a turned hand has been processed with
\* slack, and the crop is wider than the hand.
C14_Witness ==
  /\ calcIn # Null
  /\ calcOut # Null
  /\ calcIn.fn = "ComputePreprocInfoFromLanCoords"
  /\ calcIn.slack > 0
  /\ calcOut.ret.rotationInRadians # 0
  /\ calcOut.ret.bottomRight[1] - calcOut.ret.topLeft[1] > 6000

\* A call of fn has returned.
Returned(fn) ==
  calcIn # Null /\ calcOut # Null /\ "fn" \in DOMAIN calcIn /\ calcIn.fn = fn

\* C15: for classes = [p0, p1, p2, p3] the assembled result has
\* poses.pinchProb = p0, poses.fistProb = p1, isHandPresentProb = 1 - p2,
\* isLeftHandProb = p3, and the coordinates it was given.
C15_ClassMapping ==
  Returned("AssembleTrackResultFromCoordinatesAndClasses") =>
    /\ calcOut.ret.poses.pinchProb = calcIn.classes[1]
    /\ calcOut.ret.poses.fistProb = calcIn.classes[2]
    /\ calcOut.ret.isHandPresentProb + calcIn.classes[3] = U
    /\ calcOut.ret.isLeftHandProb = calcIn.classes[4]
    /\ calcOut.ret.coordinates = calcIn.coords
    /\ DOMAIN calcOut.ret = {"coordinates", "poses", "isLeftHandProb", "isHandPresentProb"}
    /\ DOMAIN calcOut.ret.poses = {"pinchProb", "fistProb"}

\* C15 witness: a result was assembled from four different class values.
C15_Witness ==
  /\ Returned("AssembleTrackResultFromCoordinatesAndClasses")
  /\ calcIn.classes = <<U \div 4, U, 0, U \div 2>>
  /\ calcOut.ret.isHandPresentProb = U

\* C16: MakeCoordinateOrderUserFriendly reorders 21 landmarks one to one:
\* the output has 21 entries, every input landmark is at exactly one output
\* index, putting them back by the inverse of the index table recovers the
\* input, and the base of the hand stays at index 20.
C16_ReorderIsBijection ==
  Returned("MakeCoordinateOrderUserFriendly") =>
    LET Position(j) == CHOOSE k \in 0..20 : At(USER_FRIENDLY_COORD_ORDER, k) = j
        recovered == [j \in 1..21 |-> At(calcOut.ret, Position(j - 1))]
    IN  /\ Len(calcOut.ret) = 21
        /\ \A j \in 0..20 :
             Cardinality({k \in 0..20 : At(USER_FRIENDLY_COORD_ORDER, k) = j}) = 1
        /\ \A k \in 0..20 : At(calcOut.ret, k) = At(calcIn.coords, At(USER_FRIENDLY_COORD_ORDER, k))
        /\ recovered = calcIn.coords
        /\ At(calcOut.ret, 20) = At(calcIn.coords, 20)

\* C16 witness: landmarks that carry their index have been reordered, and
\* the landmark 17 of the model is the first of the result.
C16_Witness ==
  /\ Returned("MakeCoordinateOrderUserFriendly")
  /\ \A k \in 0..20 : At(calcIn.coords, k)[1] = k
  /\ At(calcOut.ret, 0)[1] = 17
  /\ At(calcOut.ret, 20)[1] = 20

\* C19: ApplyPaddingToCoordinates(p, coords) takes the point [p, p] to
\* [0, 0] and the point [1 - p, 1 - p] to [1, 1], and with p = 0 it returns
\* the coordinates it was given.
C19_PaddingRemapsCorners ==
  Returned("ApplyPaddingToCoordinates") =>
    LET p == calcIn.padding
    IN  /\ Len(calcOut.ret) = Len(calcIn.coords)
        /\ \A k \in DOMAIN calcIn.coords :
             /\ calcIn.coords[k] = <<p, p>> => calcOut.ret[k] = <<0, 0>>
             /\ calcIn.coords[k] = <<U - p, U - p>> => calcOut.ret[k] = <<U, U>>
             /\ p = 0 => calcOut.ret[k] = calcIn.coords[k]

\* C19 witness: a padding of 0.1875 has been applied.
C19_Witness ==
  /\ Returned("ApplyPaddingToCoordinates")
  /\ calcIn.padding = 1875
  /\ calcOut.ret[1] = <<0, 0>>
  /\ calcOut.ret[2] = <<U, U>>
  /\ calcOut.ret[3] # calcIn.coords[3]

\* The row of calls in calcIn is fns, and all of them have returned.
RowDone(fns) ==
  /\ calcIn # Null
  /\ DOMAIN calcOut = {"results"}
  /\ calcIn.calls = fns
  /\ Len(calcOut.results) = Len(fns)

\* C17: coordinates rotated by AspectRatioAwareRotation.Apply and taken
\* into the box [T.topLeft, T.bottomRight] by CoordsInsideBox are taken back
\* to where they were by ConvertLandmarkCoordinatesToGlobalCoordinates with
\* the same T and aspect ratio; ApplyReverse undoes Apply.
C17_GlobalCoordinatesRoundTrip ==
  /\ RowDone(<<"Apply", "ApplyReverse">>) => calcOut.results[2] = calcIn.coords
  /\ RowDone(<<"Apply", "CoordsInsideBox", "ConvertLandmarkCoordinatesToGlobalCoordinates">>)
       => calcOut.results[3] = calcIn.coords

\* C17 witness: points went through a quarter turn in a frame twice as wide
\* as high and through a crop, and back.
C17_Witness ==
  /\ RowDone(<<"Apply", "CoordsInsideBox", "ConvertLandmarkCoordinatesToGlobalCoordinates">>)
  /\ calcIn.info.rotationInRadians = 1
  /\ calcIn.ar = <<200, 100>>
  /\ calcIn.info.topLeft = <<1000, 2000>>
  /\ calcOut.results[1] # calcIn.coords
  /\ calcOut.results[2] # calcOut.results[1]

\* C18: with a box of two points (of non-zero width and height)
\* CoordsInsideBox undoes CoordsOutsideBox and CoordsOutsideBox undoes
\* CoordsInsideBox; with any other number of points both throw
\* 'Wrong box dimension'.
C18_BoxRoundTrip ==
  LET boxRow == <<"CoordsOutsideBox", "CoordsInsideBox">>
      backRow == <<"CoordsInsideBox", "CoordsOutsideBox">>
  IN  /\ (RowDone(boxRow) \/ RowDone(backRow)) =>
           /\ Len(calcIn.box) = 2
           /\ calcOut.results[2] = calcIn.coords
      /\ (/\ calcIn # Null
          /\ DOMAIN calcOut = {"results"}
          /\ calcIn.calls \in {boxRow, backRow}
          /\ Len(calcIn.box) # 2
          /\ calcOut.results # <<>>)
           => /\ Len(calcOut.results) = 1
              /\ Threw(calcOut.results[1], WrongBoxDimension)

\* C18 witness: two points have been taken out of a box that is off the
\* origin and back into it.
C18_Witness ==
  /\ RowDone(<<"CoordsOutsideBox", "CoordsInsideBox">>)
  /\ calcIn.box = << <<1000, 2000>>, <<9000, 7000>> >>
  /\ Len(calcIn.coords) = 2
  /\ calcOut.results[1] # calcIn.coords

\* C20: a call of AddVectors, SubtractVectors, MultiplyVectors or
\* DivideVectors with arguments of different lengths throws 'Unequal length
\* vectors' and returns nothing; with arguments of one length it returns a
\* vector of that length with the elementwise results; the arguments are
\* as they were.
C20_VectorLengths ==
  [][(calcOut = Null /\ calcOut' # Null) =>
       /\ calcIn' = calcIn
       /\ IF Len(calcIn.a) # Len(calcIn.b)
          THEN Threw(calcOut'.ret, UnequalLengthVectors)
          ELSE /\ Len(calcOut'.ret) = Len(calcIn.a)
               /\ \A i \in 1..Len(calcIn.a) :
                    /\ calcIn.fn = "AddVectors" => calcOut'.ret[i] = calcIn.a[i] + calcIn.b[i]
                    /\ calcIn.fn = "SubtractVectors" => calcOut'.ret[i] = calcIn.a[i] - calcIn.b[i]
                    /\ calcIn.fn = "MultiplyVectors" => calcOut'.ret[i] * U = calcIn.a[i] * calcIn.b[i]
                    /\ calcIn.fn = "DivideVectors" => calcOut'.ret[i] * calcIn.b[i] = calcIn.a[i] * U]_vars

\* C20 witness: AddVectors has thrown on a vector of two numbers and a
\* vector of one.
C20_Witness ==
  /\ calcIn # Null
  /\ calcIn.fn = "AddVectors"
  /\ Len(calcIn.a) = 2
  /\ Len(calcIn.b) = 1
  /\ calcOut # Null
  /\ Threw(calcOut.ret, UnequalLengthVectors)

\* The getUserMedia calls made so far follow the order of
\* CreateMaxFpsMaxResStream: minimum frame rates 60, 30, 24, then none, each
\* but the last one rejected as over-constrained; a returned result is what
\* the last call gave.
StreamCallsInOrder ==
  /\ Len(gumCalls) <= 4
  /\ \A k \in 1..Len(gumCalls) :
       IF k <= 3
       THEN /\ "frameRate" \in DOMAIN gumCalls[k].video
            /\ gumCalls[k].video.frameRate.min = <<60, 30, 24>>[k]
       ELSE "frameRate" \notin DOMAIN gumCalls[k].video
  /\ \A k \in 1..(Len(gumCalls) - 1) :
       /\ k <= Len(gumOutcomes)
       /\ gumOutcomes[k] = [rejected |-> "OverconstrainedError"]
  /\ streamPc = "returned" =>
       /\ Len(gumOutcomes) = Len(gumCalls)
       /\ LET last == gumOutcomes[Len(gumOutcomes)]
          IN  /\ Len(gumCalls) < 4 => last # [rejected |-> "OverconstrainedError"]
              /\ streamResult = IF "resolved" \in DOMAIN last
                                THEN [stream |-> last.resolved]
                                ELSE [error |-> last.rejected]

RECURSIVE Deref(_, _)
Deref(h, v) ==
  IF v.t = "object" THEN Obj([k \in DOMAIN h[v.ref] |-> Deref(h, h[v.ref][k])]) ELSE v

\* The objects of heap h that value v reaches.
RECURSIVE Reach(_, _)
Reach(h, v) ==
  IF v.t = "object"
  THEN {v.ref} \cup UNION {Reach(h, h[v.ref][k]) : k \in DOMAIN h[v.ref]}
  ELSE {}

\* trg with the fields of src it lacks, on every level.
RECURSIVE FilledIn(_, _)
FilledIn(src, trg) ==
  IF src.t = "object" /\ trg.t = "object"
  THEN Obj([k \in DOMAIN src.f \cup DOMAIN trg.f |->
              IF k \notin DOMAIN trg.f THEN src.f[k]
              ELSE IF k \notin DOMAIN src.f THEN trg.f[k]
              ELSE FilledIn(src.f[k], trg.f[k])])
  ELSE trg

\* C22: ApplyConfigDefaults of util/config_helper leaves the objects of both
\* arguments as they were and returns a value that shares no object with
\* them: a copy of src if trg is null or undefined, else trg with every
\* field it has kept and every field of src it lacks filled in, on every
\* level.
C22_ReturnsFilledInCopy ==
  Returned("ApplyConfigDefaults") =>
    LET out == calcOut.ret
    IN  /\ "thrown" \notin DOMAIN out
        /\ \A a \in DOMAIN calcIn.heap : out.heap[a] = calcIn.heap[a]
        /\ Reach(out.heap, out.value) \cap DOMAIN calcIn.heap = {}
        /\ Deref(out.heap, out.value) =
             LET src == Deref(calcIn.heap, calcIn.src)
                 trg == Deref(calcIn.heap, calcIn.trg)
             IN  IF IsNullish(trg) THEN src ELSE FilledIn(src, trg)

\* The descriptor of the newest preprocCb call.
LastPreprocCbInfo ==
  LET calls == {i \in DOMAIN log : log[i].ev = "preprocCb" /\ log[i].ph = "call"}
      newest == CHOOSE i \in calls : \A j \in calls : j <= i
  IN  log[newest].info

\* Events of the log after the newest call of resCb.
SinceLastResult ==
  LET calls == {i \in DOMAIN log : log[i].ev = "resCb" /\ log[i].ph = "call"}
      newest == CHOOSE i \in calls : \A j \in calls : j <= i
  IN  {i \in DOMAIN log : i > newest}

\* C23: every landmark tick (looked at when it has ended) assigns the crop
\* window that ComputePreprocInfoFromLanCoords derives from its landmark
\* output, also a tick that reports no hand; after a result at or above the threshold the
\* loop holds that crop window, boxCb is not called, and the next preprocCb
\* and lanCb get that crop window.
C23_TrackingKeepsDerivedCrop ==
  LET n == Len(results)
  IN  /\ Len(tickLog) = n
      /\ n > 0 => tickLog[n].lanRes = lanRes
      /\ (n > 0 /\ log[Len(log) - 1] = Ret("resCb")) =>
           /\ tickLog[n].assigned =
                ComputePreprocInfoFromLanCoords(
                  ConvertLandmarkCoordinatesToGlobalCoordinates(
                    tickLog[n].convertedWith, trackSource, lanRes.coordinates),
                  trackSource, config["__boxSlack"])
      /\ (n > 0 /\ results[n].isHandPresentProb >= config["minHandPresenceProbabilityThreshold"])
           => /\ pc \in {"rafLan", "preprocLan", "lanCb", "returned"}
              /\ preprocInfo = tickLog[n].assigned
              /\ \A i \in SinceLastResult : log[i].ev # "boxCb"
              /\ pc \in {"preprocLan", "lanCb"} => LastPreprocCbInfo = tickLog[n].assigned
              /\ pc = "lanCb" => /\ log[Len(log)] = Call("lanCb", tickLog[n].assigned)
                                 /\ modelInput = tickLog[n].assigned

\* C23 witness: lanCb runs in the tick after a result whose hand presence
\* is exactly the threshold, and the tick before that one reported no hand.
C23_Witness ==
  /\ Len(results) = 2
  /\ pc = "lanCb"
  /\ results[2].isHandPresentProb = config["minHandPresenceProbabilityThreshold"]
  /\ results[1].isHandPresentProb < config["minHandPresenceProbabilityThreshold"]

\* Event i of the log is a call of ev.
IsCallOf(i, ev) == log[i].ph = "call" /\ log[i].ev = ev

IsModelCall(i) == IsCallOf(i, "boxCb") \/ IsCallOf(i, "lanCb")

\* Number of calls of the functions evs in the log.
CallCount(evs) == Cardinality({i \in DOMAIN log : log[i].ph = "call" /\ log[i].ev \in evs})

\* Position in the log of the k-th call of resCb (0 for k = 0).
ResultAt(k) ==
  IF k = 0 THEN 0
  ELSE CHOOSE i \in DOMAIN log :
         /\ IsCallOf(i, "resCb")
         /\ Cardinality({j \in 1..i : IsCallOf(j, "resCb")}) = k

\* The model calls of the tick that delivered result k.
ModelCallsOfTick(k) ==
  {i \in DOMAIN log : IsModelCall(i) /\ ResultAt(k - 1) < i /\ i < ResultAt(k)}

\* C24: every model call comes right after one animation frame wait and one
\* preprocCb call, in that order; the tick of a result makes two model
\* calls, boxCb then lanCb, if the loop held no crop window when it began
\* (first tick, or the result before reported no hand), and one lanCb call
\* otherwise; so the waits, the preprocCb calls and the model calls are
\* equal in number up to the call under way.
C24_WaitPreprocModel ==
  /\ \A i \in DOMAIN log :
       IsModelCall(i) =>
         /\ i > 4
         /\ log[i - 4] = Call("raf", Null)
         /\ log[i - 3] = Ret("raf")
         /\ IsCallOf(i - 2, "preprocCb")
         /\ log[i - 1] = Ret("preprocCb")
  /\ CallCount({"raf"}) - CallCount({"preprocCb"}) \in {0, 1}
  /\ CallCount({"preprocCb"}) - CallCount({"boxCb", "lanCb"}) \in {0, 1}
  /\ CallCount({"raf"}) - CallCount({"boxCb", "lanCb"}) \in {0, 1}
  /\ \A k \in 1..Len(results) :
       LET calls == ModelCallsOfTick(k)
           seeking == k = 1 \/ results[k - 1].isHandPresentProb
                                 < config["minHandPresenceProbabilityThreshold"]
       IN  IF seeking
           THEN /\ Cardinality(calls) = 2
                /\ \E b \in calls, l \in calls :
                     b < l /\ IsCallOf(b, "boxCb") /\ IsCallOf(l, "lanCb")
           ELSE /\ Cardinality(calls) = 1
                /\ \A l \in calls : IsCallOf(l, "lanCb")

\* C24 witness: three results; the second tick began with a crop window,
\* the third without one.
C24_Witness ==
  /\ Len(results) = 3
  /\ results[1].isHandPresentProb >= config["minHandPresenceProbabilityThreshold"]
  /\ results[2].isHandPresentProb < config["minHandPresenceProbabilityThreshold"]
  /\ Cardinality(ModelCallsOfTick(2)) = 1
  /\ Cardinality(ModelCallsOfTick(3)) = 2

\* The asynchronous calls the loop awaits.
Awaited == {"raf", "preprocCb", "boxCb", "lanCb"}

\* Number of awaited calls that have not returned after the first n events
\* of the log.
InFlight(n) ==
  Cardinality({i \in 1..n : log[i].ph = "call" /\ log[i].ev \in Awaited})
  - Cardinality({i \in 1..n : log[i].ph = "ret" /\ log[i].ev \in Awaited})

\* C25: at no point of a run is more than one of the frame wait, preprocCb,
\* boxCb and lanCb in flight; preprocCb is called only when nothing is in
\* flight; and while a model call is in flight the shared canvas holds what
\* preprocCb drew for that call.
C25_SingleFlight ==
  /\ [](/\ \A n \in 0..Len(log) : InFlight(n) \in {0, 1}
        /\ \A i \in DOMAIN log : IsCallOf(i, "preprocCb") => InFlight(i - 1) = 0
        /\ pc \in {"boxCb", "lanCb"} =>
             /\ IsModelCall(Len(log))
             /\ modelInput = log[Len(log)].info
             /\ modelInput = LastPreprocCbInfo)
  /\ [][(pc \in {"boxCb", "lanCb"}) => (modelInput' = modelInput /\ InFlight(Len(log)) = 1)]_vars

\* C25 witness: lanCb is in flight in the second tick, on a crop window
\* other than the one of the first tick.
C25_Witness ==
  /\ pc = "lanCb"
  /\ Len(results) = 1
  /\ InFlight(Len(log)) = 1
  /\ modelInput # tickLog[1].convertedWith

\* Position in the log of the k-th call of lanCb.
LanCallAt(k) ==
  CHOOSE i \in DOMAIN log :
    /\ IsCallOf(i, "lanCb")
    /\ Cardinality({j \in 1..i : IsCallOf(j, "lanCb")}) = k

\* C27: the crop window that ConvertLandmarkCoordinatesToGlobalCoordinates
\* maps a tick's landmark output back with is the one preprocCb drew the
\* input of that tick's lanCb call with; it is not null; and the loop holds
\* it unchanged from the preprocCb call until the conversion.
C27_SameCropForDrawAndConvert ==
  LET n == Len(tickLog)
  IN  /\ \A k \in 1..n :
           LET l == LanCallAt(k)
           IN  /\ tickLog[k].convertedWith # Null
               /\ log[l].info = tickLog[k].convertedWith
               /\ log[l - 2] = Call("preprocCb", tickLog[k].convertedWith)
      /\ pc \in {"preprocLan", "lanCb"} =>
           /\ preprocInfo # Null
           /\ preprocInfo = LastPreprocCbInfo
      /\ (n > 0 /\ log[Len(log) - 1] = Ret("resCb")) =>
           results[n].coordinates =
             ApplyPostProcessingToCoordinates(
               config,
               ConvertLandmarkCoordinatesToGlobalCoordinates(
                 log[LanCallAt(n) - 2].info, trackSource, lanRes.coordinates))

\* C27 witness: a tick has ended whose landmark input was drawn with a crop
\* window derived from the landmark output of the tick before.
C27_Witness ==
  /\ Len(tickLog) = 2
  /\ log[Len(log) - 1] = Ret("resCb")
  /\ tickLog[2].convertedWith = tickLog[1].assigned
  /\ tickLog[2].convertedWith # BOX_PREPROC_INFO

\* Config objects that differ from cfg in nothing but the post processing
\* of the coordinates: all of it switched on, and all of it switched off.
PostVariants(cfg) ==
  {[cfg EXCEPT !["mirrorX"] = b,
               !["padding"] = IF b THEN U \div 10 ELSE 0,
               !["__userFriendlyCoordinateOrder"] = b] : b \in BOOLEAN}

WithoutCoordinates(result) == [result EXCEPT !.coordinates = <<>>]

\* C28: from one state of the loop and one model output, a run with any
\* other mirrorX, padding and __userFriendlyCoordinateOrder takes the step
\* the run at hand takes: the same crop window is assigned and held, and
\* the result differs in its coordinates at most.  The other steps read no
\* coordinates and none of the three fields, so two such runs on the same
\* model outputs pass through the same crop windows and calls.
C28_PostProcessingDoesNotSteer ==
  [][/\ (pc = "lanCb" /\ pc' # "lanCb") =>
          \A alt \in PostVariants(config) :
            LET body == TickBodyOf(alt, preprocInfo, lanRes')
                result == TickResultOf(alt, preprocInfo, lanRes')
            IN  /\ body = tickLog'[Len(tickLog')]
                /\ TickPreprocInfoOf(alt, body, result) = preprocInfo'
                /\ WithoutCoordinates(result) = WithoutCoordinates(results'[Len(results')])
     /\ (pc = "boxCb" /\ pc' = "rafLan") =>
          \A alt \in PostVariants(config) :
            preprocInfo' = ComputePreprocInfoFromBoxCoords(boxRes'.coordinates, trackSource,
                                                           alt["__boxSlack"])
     /\ config' # config => pc = "loading"]_vars

\* C28 witness: a run without mirroring tracks on, in its third tick, with
\* results whose coordinates a mirroring run would have delivered otherwise.
C28_Witness ==
  /\ pc = "lanCb"
  /\ Len(results) = 2
  /\ ~config["mirrorX"]
  /\ results[2].isHandPresentProb >= config["minHandPresenceProbabilityThreshold"]
  /\ results[2].coordinates #
       TickResultOf([config EXCEPT !["mirrorX"] = TRUE],
                    tickLog[2].convertedWith, tickLog[2].lanRes).coordinates

SameAspectRatio(a, b) ==
  a.width.n * a.height.d * b.height.n * b.width.d
    = b.width.n * b.height.d * a.height.n * a.width.d

FitsLimit(res, limit) ==
  FracLeq(res.width, limit.width) /\ FracLeq(res.height, limit.height)

\* C30: what ScaleResolutionDown returns fits the limit in width and in
\* height and has the aspect ratio of the resolution it was given; a
\* resolution that fits the limit is returned as it is.
C30_ScaledDownFitsLimit ==
  Returned("ScaleResolutionDown") =>
    /\ FitsLimit(calcOut.ret, calcIn.upperResolutionLimit)
    /\ SameAspectRatio(calcOut.ret, calcIn.resolution)
    /\ FitsLimit(calcIn.resolution, calcIn.upperResolutionLimit) => calcOut.ret = calcIn.resolution

\* C29: Load is called at most once, however the CreateEngine calls
\* interleave, and every call that has started resolves at some time, with
\* an engine of the one API that is cached.
C29_LoadsOnce ==
  /\ [](loadCalls <= 1)
  /\ \A c \in Callers :
       (cePc[c] # "idle") ~> (cePc[c] = "resolved" /\ ceEngine[c] = ApiCreateEngine(API))
  /\ [][API # Null => API' = API]_vars

\* The transform of the documented order: scale the box to the canvas,
\* move the top left of the crop to the origin, rotate about the rotation
\* centre, mirror if asked to.
DocumentedTransform(t) ==
  LET boxWidth == FracAdd(PadWidth(t), Whole(1))
      boxHeight == FracAdd(PadHeight(t), Whole(1))
      ox == FracMul(t.topLeft[1], Whole(originalWidth_))
      oy == FracMul(t.topLeft[2], Whole(originalHeight_))
      cx == FracMul(t.rotationCenter[1], Whole(originalWidth_))
      cy == FracMul(t.rotationCenter[2], Whole(originalHeight_))
      scale == ScaleM(FracDiv(Whole(resizeWidth_), boxWidth), FracDiv(Whole(resizeHeight_), boxHeight))
      toOrigin == TranslateM(FracNeg(ox), FracNeg(oy))
      rotate == MatMul(MatMul(TranslateM(cx, cy), RotateM(t.rotationInRadians)),
                       TranslateM(FracNeg(cx), FracNeg(cy)))
      mirror == IF t.flip THEN ScaleM(Whole(0 - 1), Whole(1)) ELSE IdentityM
  IN  MatMul(MatMul(MatMul(scale, toOrigin), rotate), mirror)

\* The frame sampled through the transform m to a cleared canvas.
DocumentedPixels(m, t) ==
  [p \in CanvasPixels |->
     LET u == UserPoint(m, p)
         x == IF t.flip THEN FracAdd(u[1], Whole(originalWidth_)) ELSE u[1]
     IN  IF /\ FracLeq(Whole(0), x) /\ FracLt(x, Whole(originalWidth_))
            /\ FracLeq(Whole(0), u[2]) /\ FracLt(u[2], Whole(originalHeight_))
         THEN TrackSourceImage[FracFloor(x), FracFloor(u[2])]
         ELSE Transparent]

\* C26: after a Preprocess call, whatever the canvas held and whatever its
\* transform was, the canvas holds the frame drawn to a cleared canvas
\* through the transform of the documented order, built up from the
\* identity: nothing of the pixels and of the transform the call found is
\* left.  Without padding the transform is left in place; with padding the
\* crop window is made square first, and afterwards the transform is the
\* identity and the pixels differ from the drawn ones only by being
\* transparent.
C26_PreprocessOverwrites ==
  lastPreprocInfo # Null =>
    LET t == IF pad_ THEN SquareBox(lastPreprocInfo) ELSE lastPreprocInfo
        m == DocumentedTransform(t)
        drawn == DocumentedPixels(m, t)
    IN  /\ canvas_ = PreprocessOn(pad_, NewCanvas, TrackSourceImage, lastPreprocInfo)
        /\ ~pad_ => canvas_ = [transform |-> m, pixels |-> drawn]
        /\ pad_ => /\ canvas_.transform = IdentityM
                   /\ \A p \in CanvasPixels : canvas_.pixels[p] \in {drawn[p], Transparent}

\* C26 witness: a call found a canvas with a transform other than the
\* identity and with pixels of an earlier frame, and has left pixels
\* transparent that held the earlier frame.
C26_Witness ==
  /\ preprocessCalls = 2
  /\ canvasBefore.transform # IdentityM
  /\ \E p \in CanvasPixels :
       canvasBefore.pixels[p] # Transparent /\ canvas_.pixels[p] = Transparent

====
